---- MODULE Spec2Model ----
(***************************************************************************)
(* The quick-edit controller (QuickEditService) of slickgrid-universal,    *)
(* with the host grid it drives and the deferred continuations it queues.  *)
(*                                                                         *)
(* A JavaScript string is a sequence of one-character strings, so that     *)
(* key.length, toLowerCase() and the first-character regular expression    *)
(* are computed rather than assumed.  A value that may be undefined is a   *)
(* sequence: Undef (empty) or Def(v).                                      *)
(***************************************************************************)
EXTENDS Integers, Sequences, FiniteSets, TLC

Undef    == <<>>
Def(v)   == <<v>>
Val(x)   == x[1]
IsDef(x) == x # <<>>

\* !!x of an optional boolean
Truthy(x) == x = Def(TRUE)

(***************************************************************************)
(* Strings                                                                 *)
(***************************************************************************)
UpperCaseChars == <<"A","B","C","D","E","F","G","H","I","J","K","L","M",
                    "N","O","P","Q","R","S","T","U","V","W","X","Y","Z">>
LowerCaseChars == <<"a","b","c","d","e","f","g","h","i","j","k","l","m",
                    "n","o","p","q","r","s","t","u","v","w","x","y","z">>

\* the lower-case letter of each upper-case letter
LowerOf ==
  [ c \in { UpperCaseChars[i] : i \in 1..Len(UpperCaseChars) } |->
      LowerCaseChars[CHOOSE i \in 1..Len(UpperCaseChars) : UpperCaseChars[i] = c] ]

\* String.prototype.toLowerCase, one character
toLowerCaseChar(c) == IF c \in DOMAIN LowerOf THEN LowerOf[c] ELSE c

\* String.prototype.toLowerCase
toLowerCase(s) == [i \in 1..Len(s) |-> toLowerCaseChar(s[i])]

\* the keys (KeyboardEvent.key) and names the program compares against
kText       == <<"t","e","x","t">>
kInteger    == <<"i","n","t","e","g","e","r">>
kFloat      == <<"f","l","o","a","t">>
kNumber     == <<"n","u","m","b","e","r">>
kEnter      == <<"E","n","t","e","r">>
kSpace      == <<" ">>
kSpacebar   == <<"S","p","a","c","e","b","a","r">>
kDead       == <<"D","e","a","d">>
kArrowLeft  == <<"A","r","r","o","w","L","e","f","t">>
kArrowRight == <<"A","r","r","o","w","R","i","g","h","t">>
kArrowUp    == <<"A","r","r","o","w","U","p">>
kArrowDown  == <<"A","r","r","o","w","D","o","w","n">>
kHome       == <<"H","o","m","e">>
kEnd        == <<"E","n","d">>
kPageUp     == <<"P","a","g","e","U","p">>
kPageDown   == <<"P","a","g","e","D","o","w","n">>
kTab        == <<"T","a","b">>
kEscape     == <<"E","s","c","a","p","e">>
kEsc        == <<"E","s","c">>
kF2         == <<"F","2">>

NAVIGATION_KEYS ==
  { kArrowLeft, kArrowRight, kArrowUp, kArrowDown, kHome, kEnd,
    kPageUp, kPageDown, kTab, kEscape, kEsc, kF2 }

Digits == {"0","1","2","3","4","5","6","7","8","9"}

\* NUMBER_FIRST_CHAR_REGEX.test(s), the regular expression /^[0-9.-]$/
NUMBER_FIRST_CHAR_REGEX(s) ==
  Len(s) = 1 /\ s[1] \in Digits \cup {".", "-"}

(***************************************************************************)
(* Settings resolver                                                       *)
(***************************************************************************)
DEFAULT_QUICK_EDIT_OPTIONS ==
  [ startOnPrintableKey      |-> TRUE,
    seedWithTypedChar        |-> TRUE,
    allowEnterToStart        |-> FALSE,
    ignoreWithMetaKey        |-> TRUE,
    eligibleEditors          |-> <<kText, kInteger, kFloat, kNumber>>,
    moveCaretToEndOnDblClick |-> TRUE ]

VARIABLE defaultOptions   \* the module's DEFAULT_QUICK_EDIT_OPTIONS object

\* a ?? b
Coalesce(a, b) == IF a = Undef THEN b ELSE Val(a)

\* mutant: the supplied fields are not read
OptField_Absent(option, f) == Undef

\* option?.field
OptField(option, f) == IF option = Undef THEN Undef ELSE Val(option)[f]

\* mutant: the keys are kept as given
MapLower_Identity(list) == list

\* Array.prototype.map(key => key.toLowerCase())
MapLower(list) == [i \in 1..Len(list) |-> toLowerCase(list[i])]

\* Array.from(new Set(list)): the first occurrence of each element, in order
RECURSIVE ArrayFromSet(_)
ArrayFromSet(list) ==
  IF list = <<>> THEN <<>>
  ELSE LET front == ArrayFromSet(SubSeq(list, 1, Len(list) - 1))
           x     == list[Len(list)]
       IN IF \E i \in 1..Len(front) : front[i] = x THEN front ELSE Append(front, x)

resolveQuickEditOptions(option) ==
  LET eligibleEditors ==
        Coalesce(OptField(option, "eligibleEditors"),
                 defaultOptions.eligibleEditors)
      normalizedEligibleEditors == ArrayFromSet(MapLower(eligibleEditors))
  IN [ startOnPrintableKey |->
         Coalesce(OptField(option, "startOnPrintableKey"),
                  defaultOptions.startOnPrintableKey),
       seedWithTypedChar |->
         Coalesce(OptField(option, "seedWithTypedChar"),
                  defaultOptions.seedWithTypedChar),
       allowEnterToStart |->
         Coalesce(OptField(option, "allowEnterToStart"),
                  defaultOptions.allowEnterToStart),
       ignoreWithMetaKey |->
         Coalesce(OptField(option, "ignoreWithMetaKey"),
                  defaultOptions.ignoreWithMetaKey),
       eligibleEditors |-> normalizedEligibleEditors,
       moveCaretToEndOnDblClick |->
         Coalesce(OptField(option, "moveCaretToEndOnDblClick"),
                  defaultOptions.moveCaretToEndOnDblClick) ]

\* mutant: the keys of the list that was read are lower-cased in place
resolveQuickEditOptionsWrites_InPlace(option, defaults) ==
  IF OptField(option, "eligibleEditors") = Undef
  THEN [ option   |-> option,
         defaults |-> [defaults EXCEPT !.eligibleEditors = MapLower(@)] ]
  ELSE [ option   |-> Def([Val(option) EXCEPT !.eligibleEditors = Def(MapLower(Val(@)))]),
         defaults |-> defaults ]

\* what a call of resolveQuickEditOptions leaves in its argument and in the
\* defaults object: no statement of the function assigns to a property of
\* either; map, new Set, Array.from and the object literal allocate new objects
resolveQuickEditOptionsWrites(option, defaults) ==
  [ option |-> option, defaults |-> defaults ]

\* values of eligibleEditors that are not a list of strings: a value with no map
\* method (a string, say), and a list entry with no toLowerCase method (a number)
NonArrayValue == << <<"not an array">> >>
NonStringEntry == <<"not a string">>

\* whether the call throws a TypeError: line 54 calls map on the list that was
\* read and toLowerCase on each of its entries
resolveQuickEditOptionsThrows(option) ==
  LET eligibleEditors ==
        Coalesce(OptField(option, "eligibleEditors"), defaultOptions.eligibleEditors)
  IN \/ eligibleEditors = NonArrayValue
     \/ \E i \in 1..Len(eligibleEditors) : eligibleEditors[i] = NonStringEntry

\* new Set(list)
SetOf(list) == { list[i] : i \in 1..Len(list) }

(***************************************************************************)
(* The host grid's static configuration: editor registry, columns, data    *)
(***************************************************************************)
\* editor constructors, by identity
InputEditor   == "InputEditor"
IntegerEditor == "IntegerEditor"
FloatEditor   == "FloatEditor"
MyEditor      == "MyEditor"
AnonEditor    == "AnonEditor"

\* Object.entries(Editors)
Editors ==
  << <<kText, InputEditor>>, <<kInteger, IntegerEditor>>, <<kFloat, FloatEditor>> >>

\* Function.prototype.name of a constructor; a class expression has the name ""
CtorName(ctor) ==
  CASE ctor = InputEditor   -> <<"I","n","p","u","t","E","d","i","t","o","r">>
    [] ctor = IntegerEditor -> <<"I","n","t","e","g","e","r","E","d","i","t","o","r">>
    [] ctor = FloatEditor   -> <<"F","l","o","a","t","E","d","i","t","o","r">>
    [] ctor = MyEditor      -> <<"M","y","E","d","i","t","o","r">>
    [] OTHER                -> <<>>

\* whether an instance's editorDomElement is an HTMLInputElement or HTMLTextAreaElement
CtorHasInput(ctor) == ctor \in {InputEditor, IntegerEditor, FloatEditor, AnonEditor}

\* whether an instance defines setValue
CtorHasSetValue(ctor) == ctor \in {InputEditor, IntegerEditor, FloatEditor, MyEditor}

\* grid.getColumns(): column definitions, indexed from 0 as in the code
Columns ==
  << [ editor |-> Def([model |-> InputEditor, type |-> Undef]),
       type   |-> Def(<<"s","t","r","i","n","g">>) ],
     [ editor |-> Def([model |-> IntegerEditor, type |-> Undef]),
       type   |-> Undef ],
     [ editor |-> Def([model |-> MyEditor, type |-> Undef]),
       type   |-> Def(<<"s","t","r","i","n","g">>) ],
     [ editor |-> Def([model |-> AnonEditor, type |-> Def(<<"F","L","O","A","T">>)]),
       type   |-> Undef ],
     [ editor |-> Undef,
       type   |-> Def(<<"s","t","r","i","n","g">>) ],
     [ editor |-> Undef,
       type   |-> Def(<<"n","u","m","b","e","r">>) ],
     [ editor |-> Def([model |-> MyEditor, type |-> Undef]),
       type   |-> Def(<<"I","n","t","e","g","e","r">>) ],
     [ editor |-> Def([model |-> AnonEditor, type |-> Undef]),
       type   |-> Def(<<"s","t","r","i","n","g">>) ] >>

NumCols == Len(Columns)

\* the rows of the data view
DataRows == {0}

\* grid.getColumns()[cell]
getColumn(cell) == IF cell \in 0..(NumCols - 1) THEN Def(Columns[cell + 1]) ELSE Undef

\* grid.canCellBeActive(row, cell)
canCellBeActive(row, cell) ==
  /\ row \in DataRows
  /\ cell \in 0..(NumCols - 1)

\* the text an editor shows when the grid opens it on a cell
CellValue(cell) ==
  CASE cell = 0 -> <<"a","b">>
    [] cell = 1 -> <<"1","2">>
    [] cell = 2 -> <<"3">>
    [] OTHER    -> <<"7",".","5">>

(***************************************************************************)
(* Editor eligibility                                                      *)
(***************************************************************************)
NumberKinds == {kInteger, kFloat, kNumber}

\* resolveEditorKey: EDITOR_KEY_CACHE memoizes, per constructor, the value
\* computed here; a cached value is the value of an earlier evaluation
resolveEditorKey(editorModel) ==
  IF editorModel = Undef THEN Undef
  ELSE IF \E i \in 1..Len(Editors) : Editors[i][2] = Val(editorModel)
       THEN Def(toLowerCase(
              Editors[CHOOSE i \in 1..Len(Editors) :
                        /\ Editors[i][2] = Val(editorModel)
                        /\ \A j \in 1..(i - 1) : Editors[j][2] # Val(editorModel)][1]))
       ELSE IF CtorName(Val(editorModel)) # <<>>
            THEN Def(toLowerCase(CtorName(Val(editorModel))))
            ELSE Undef

\* mutant: the editor's type is not looked at
isNumberColumn_NoEditorType(column, editorKey) ==
  \/ Coalesce(editorKey, <<>>) \in NumberKinds
  \/ toLowerCase(Coalesce(column.type, <<>>)) \in NumberKinds

\* isNumberColumn(column, editorKey)
isNumberColumn(column, editorKey) ==
  LET loweredEditorKey == Coalesce(editorKey, <<>>)
      columnType == toLowerCase(Coalesce(column.type, <<>>))
      editorType == toLowerCase(Coalesce(OptField(column.editor, "type"), <<>>))
  IN \/ loweredEditorKey \in NumberKinds
     \/ columnType \in NumberKinds
     \/ editorType \in NumberKinds

\* isColumnEligible(column), against the controller's _eligibleEditorKeys
isColumnEligible(column, keys) ==
  LET editorModel == IF column.editor = Undef THEN Undef
                     ELSE Def(Val(column.editor).model)
      editorKey   == resolveEditorKey(editorModel)
  IN IF editorModel = Undef THEN FALSE
     ELSE IF editorKey # Undef /\ Val(editorKey) \in keys THEN TRUE
     ELSE IF kNumber \in keys /\ isNumberColumn(column, editorKey) THEN TRUE
     ELSE FALSE

(***************************************************************************)
(* State                                                                   *)
(***************************************************************************)
VARIABLES
  grid,                \* _grid: TRUE when the controller holds a grid reference
  gridOptions,         \* _gridOptions
  quickEditSettings,   \* _quickEditSettings
  eligibleEditorKeys,  \* _eligibleEditorKeys
  subscriptions,       \* _eventHandler: the host events subscribed to, in order
  hostOptions,         \* host grid: grid.getOptions()
  activeCell,          \* host grid: the active cell, or Undef
  cellEditor,          \* host grid: the open cell editor, or Undef
  editorLock,          \* host grid: getEditorLock().isActive()
  tasks,               \* continuations queued by queueMicrotaskOrSetTimeout
  last                 \* the operation that led to this state and what it did

\* the state of a SelectFilter (filters/selectFilter.ts), the multiple-select
\* filter of a column header
VARIABLES
  isMultipleSelect,    \* _isMultipleSelect
  columnDef,           \* columnDef, with the user's collection in its filter
  searchTerms,         \* searchTerms
  shouldTriggerQuery,  \* _shouldTriggerQuery
  filterElm,           \* $filterElm: the multiple-select element, or Undef
  isFilled,            \* isFilled
  supplied,            \* the collection as it was when init received it
  renders,             \* the number of times the filter was rendered
  filterLast           \* the filter operation that led to this state and what it did

quickEditVars ==
  << defaultOptions, grid, gridOptions, quickEditSettings, eligibleEditorKeys,
     subscriptions, hostOptions, activeCell, cellEditor, editorLock, tasks, last >>

filterVars ==
  << isMultipleSelect, columnDef, searchTerms, shouldTriggerQuery, filterElm, isFilled,
     supplied, renders, filterLast >>

vars == << quickEditVars, filterVars >>

\* the part of the state a grid event handler can change, and what it did;
\* previous: the settings record the controller held when the operation started
World ==
  [ activeCell |-> activeCell, cellEditor |-> cellEditor, editorLock |-> editorLock,
    tasks |-> tasks, calls |-> <<>>, stopped |-> FALSE, prevented |-> FALSE,
    threw |-> FALSE, previous |-> quickEditSettings ]

\* the editor instance the grid constructs for a cell
NewEditor(cell) ==
  [ row |-> cell.row, cell |-> cell.cell, value |-> CellValue(cell.cell),
    focused |-> FALSE, selectionStart |-> 0, selectionEnd |-> 0 ]

\* the constructor of an open editor
EditorCtor(editor) == Val(Val(getColumn(editor.cell)).editor).model

\* whether the grid can construct an editor on a cell
HasEditor(cell) ==
  /\ getColumn(cell.cell) # Undef
  /\ Val(getColumn(cell.cell)).editor # Undef

\* grid.setActiveCell(row, cell): the open editor, if any, is closed
setActiveCell(w, row, cell) ==
  [ w EXCEPT !.activeCell = Def([row |-> row, cell |-> cell]),
             !.editorLock = IF w.cellEditor # Undef THEN FALSE ELSE w.editorLock,
             !.cellEditor = Undef,
             !.calls      = Append(w.calls, [cmd |-> "setActiveCell",
                                             cell |-> Def([row |-> row, cell |-> cell]),
                                             e |-> Undef]) ]

\* grid.editActiveCell(undefined, undefined, e); opens: whether the grid has
\* constructed the editor when the call returns
editActiveCell(w, e, opens) ==
  LET canOpen == /\ opens
                 /\ w.activeCell # Undef
                 /\ HasEditor(Val(w.activeCell))
                 /\ w.cellEditor = Undef
                 /\ ~w.editorLock
      call == [ cmd |-> "editActiveCell", cell |-> w.activeCell, e |-> Def(e) ]
  IN [ w EXCEPT !.cellEditor = IF canOpen THEN Def(NewEditor(Val(w.activeCell)))
                                ELSE w.cellEditor,
                !.editorLock = IF canOpen THEN TRUE ELSE w.editorLock,
                !.calls      = Append(w.calls, call) ]

(***************************************************************************)
(* QuickEditService                                                        *)
(***************************************************************************)
\* isQuickEditEnabled
isQuickEditEnabled == Truthy(gridOptions.enableQuickEdit)

\* getEditorInputElement(editor) is not null
getEditorInputElement(editor) == CtorHasInput(EditorCtor(editor))

\* mutant: every editor is taken to have a text input
isEditorEligible_Always(editor) == TRUE

\* isEditorEligible(editor)
isEditorEligible(editor) == getEditorInputElement(editor)

\* mutant: the text is selected from its start
moveCaretToEnd_SelectAll(editor) ==
  IF ~getEditorInputElement(editor) THEN editor
  ELSE [ editor EXCEPT !.focused = TRUE,
                       !.selectionStart = 0,
                       !.selectionEnd = Len(editor.value) ]

\* moveCaretToEnd(editor)
moveCaretToEnd(editor) ==
  IF ~getEditorInputElement(editor) THEN editor
  ELSE [ editor EXCEPT !.focused = TRUE,
                       !.selectionStart = Len(editor.value),
                       !.selectionEnd = Len(editor.value) ]

\* mutant: the target cell is made active whatever the active cell is
beginQuickEdit_AlwaysActivates(w, args, nativeEvent, seedChar, opens) ==
  IF ~grid THEN [ok |-> FALSE, w |-> w]
  ELSE IF ~canCellBeActive(args.row, args.cell) THEN [ok |-> FALSE, w |-> w]
  ELSE
    LET w1 == setActiveCell(w, args.row, args.cell)
        w2 == editActiveCell(w1, nativeEvent, opens)
        task == [ kind |-> "key", seedChar |-> seedChar,
                  row |-> args.row, cell |-> args.cell ]
    IN [ ok |-> TRUE, w |-> [w2 EXCEPT !.tasks = Append(w2.tasks, task)] ]

\* mutant: the edit command is issued a second time
beginQuickEdit_EditsTwice(w, args, nativeEvent, seedChar, opens) ==
  IF ~grid THEN [ok |-> FALSE, w |-> w]
  ELSE IF ~canCellBeActive(args.row, args.cell) THEN [ok |-> FALSE, w |-> w]
  ELSE
    LET w1 == IF \/ w.activeCell = Undef
                 \/ Val(w.activeCell).row # args.row
                 \/ Val(w.activeCell).cell # args.cell
              THEN setActiveCell(w, args.row, args.cell)
              ELSE w
        w2 == editActiveCell(editActiveCell(w1, nativeEvent, opens), nativeEvent, opens)
        task == [ kind |-> "key", seedChar |-> seedChar,
                  row |-> args.row, cell |-> args.cell ]
    IN [ ok |-> TRUE, w |-> [w2 EXCEPT !.tasks = Append(w2.tasks, task)] ]

\* beginQuickEdit(args, column, nativeEvent, seedChar): [ok, w]
beginQuickEdit(w, args, nativeEvent, seedChar, opens) ==
  IF ~grid THEN [ok |-> FALSE, w |-> w]
  ELSE IF ~canCellBeActive(args.row, args.cell) THEN [ok |-> FALSE, w |-> w]
  ELSE
    LET w1 == IF \/ w.activeCell = Undef
                 \/ Val(w.activeCell).row # args.row
                 \/ Val(w.activeCell).cell # args.cell
              THEN setActiveCell(w, args.row, args.cell)
              ELSE w
        w2 == editActiveCell(w1, nativeEvent, opens)
        task == [ kind |-> "key", seedChar |-> seedChar,
                  row |-> args.row, cell |-> args.cell ]
    IN [ ok |-> TRUE, w |-> [w2 EXCEPT !.tasks = Append(w2.tasks, task)] ]

\* the seed character of a key, or Undef
SeedChar(key) ==
  IF key = kSpace \/ key = kSpacebar THEN Def(kSpace)
  ELSE IF key # <<>> /\ Len(key) = 1 /\ key # kDead THEN Def(key)
  ELSE Undef

\* handleKeyDown, the guard of line 98
KeyDownDisabled == ~grid \/ ~isQuickEditEnabled \/ ~Truthy(gridOptions.editable)

\* handleKeyDown, the guard of line 102
KeyDownArgsRejected(ev) ==
  \/ ev.args = Undef
  \/ Val(ev.args).row = Undef
  \/ Val(ev.args).cell = Undef
  \/ ~canCellBeActive(Val(Val(ev.args).row), Val(Val(ev.args).cell))

\* mutant: the guard checks the open editor but not the editor lock
EditorOpenOnly(w) == w.cellEditor # Undef

\* handleKeyDown, the re-entrant guard of line 106
EditorOpenOrLocked(w) == w.cellEditor # Undef \/ w.editorLock

\* mutant: the Alt modifier is not looked at
NativeEventRejected_IgnoresAlt(ev) ==
  \/ ev.native = Undef
  \/ Val(ev.native).isComposing
  \/ Val(ev.native).defaultPrevented
  \/ Val(ev.native).repeat

\* handleKeyDown, the guards of lines 111 and 115 on the native event
NativeEventRejected(ev) ==
  \/ ev.native = Undef
  \/ Val(ev.native).isComposing
  \/ Val(ev.native).defaultPrevented
  \/ Val(ev.native).repeat
  \/ Val(ev.native).altKey

\* mutant: Ctrl or Meta rejects whatever ignoreWithMetaKey says
MetaKeyRejected_Always(nativeEvent, settings) ==
  nativeEvent.metaKey \/ nativeEvent.ctrlKey

\* handleKeyDown, the guard of line 119
MetaKeyRejected(nativeEvent, settings) ==
  (nativeEvent.metaKey \/ nativeEvent.ctrlKey) /\ settings.ignoreWithMetaKey

\* mutant: Enter starts whatever allowEnterToStart says
KeyRejected_EnterAlways(key, seedChar, settings) ==
  IF seedChar # Undef
  THEN ~settings.startOnPrintableKey \/ key \in NAVIGATION_KEYS
  ELSE ~(key = kEnter)

\* mutant: the test that the key is Enter is missing
KeyRejected_AnyKey(key, seedChar, settings) ==
  IF seedChar # Undef
  THEN ~settings.startOnPrintableKey \/ key \in NAVIGATION_KEYS
  ELSE ~settings.allowEnterToStart

\* handleKeyDown, the guards of lines 133 to 139 on the classified key
KeyRejected(key, seedChar, settings) ==
  IF seedChar # Undef
  THEN ~settings.startOnPrintableKey \/ key \in NAVIGATION_KEYS
  ELSE ~(key = kEnter) \/ ~settings.allowEnterToStart

\* handleKeyDown, the guard of line 146 on the first character of a number
NumberSeedRejected(column, seedChar) ==
  /\ seedChar # Undef
  /\ isNumberColumn(column, Undef)
  /\ ~NUMBER_FIRST_CHAR_REGEX(Val(seedChar))

\* mutant: the propagation is stopped and the default action is left to run
StopAndPreventDefault_NoPrevent(w) == [w EXCEPT !.stopped = TRUE]

\* handleKeyDown, lines 151 and 152: eventData.stopImmediatePropagation() and
\* eventData.preventDefault()
StopAndPreventDefault(w) == [w EXCEPT !.stopped = TRUE, !.prevented = TRUE]

\* handleKeyDown(eventData, args); ev = [native, args], args = [row, cell]
handleKeyDown(w, ev, opens) ==
  IF KeyDownDisabled THEN w
  ELSE IF KeyDownArgsRejected(ev) THEN w
  ELSE IF EditorOpenOrLocked(w) THEN w
  ELSE IF NativeEventRejected(ev) THEN w
  ELSE IF MetaKeyRejected(Val(ev.native), quickEditSettings) THEN w
  ELSE
    LET args        == [row |-> Val(Val(ev.args).row), cell |-> Val(Val(ev.args).cell)]
        nativeEvent == Val(ev.native)
        seedChar    == SeedChar(nativeEvent.key)
        column      == getColumn(args.cell)
    IN
    IF KeyRejected(nativeEvent.key, seedChar, quickEditSettings) THEN w
    ELSE IF column = Undef \/ ~isColumnEligible(Val(column), eligibleEditorKeys) THEN w
    ELSE IF NumberSeedRejected(Val(column), seedChar) THEN w
    ELSE
      LET r == beginQuickEdit(w, args, nativeEvent, seedChar, opens)
      IN IF r.ok THEN StopAndPreventDefault(r.w) ELSE r.w

\* mutant: the handler makes the cell active itself before deferring
handleDblClick_Activates(w, ev) ==
  IF ~grid \/ ~isQuickEditEnabled \/ ~quickEditSettings.moveCaretToEndOnDblClick THEN w
  ELSE IF \/ ev.args = Undef
          \/ Val(ev.args).row = Undef
          \/ Val(ev.args).cell = Undef THEN w
  ELSE
    LET args   == [row |-> Val(Val(ev.args).row), cell |-> Val(Val(ev.args).cell)]
        column == getColumn(args.cell)
        w1     == setActiveCell(w, args.row, args.cell)
    IN IF column = Undef \/ ~isColumnEligible(Val(column), eligibleEditorKeys) THEN w
       ELSE [ w1 EXCEPT !.tasks = Append(w.tasks, [ kind |-> "dblclick", seedChar |-> Undef,
                                                    row |-> args.row, cell |-> args.cell ]) ]

\* handleDblClick(_eventData, args)
handleDblClick(w, ev) ==
  IF ~grid \/ ~isQuickEditEnabled \/ ~quickEditSettings.moveCaretToEndOnDblClick THEN w
  ELSE IF \/ ev.args = Undef
          \/ Val(ev.args).row = Undef
          \/ Val(ev.args).cell = Undef THEN w
  ELSE
    LET args   == [row |-> Val(Val(ev.args).row), cell |-> Val(Val(ev.args).cell)]
        column == getColumn(args.cell)
    IN IF column = Undef \/ ~isColumnEligible(Val(column), eligibleEditorKeys) THEN w
       ELSE [ w EXCEPT !.tasks = Append(w.tasks, [ kind |-> "dblclick", seedChar |-> Undef,
                                                   row |-> args.row, cell |-> args.cell ]) ]

\* the record that _quickEditSettings referred to before refreshOptions(), as the
\* call leaves it: line 311 assigns the field and writes nothing into the record
refreshOptionsPrevious == quickEditSettings

\* _gridOptions = o; refreshOptions(): the controller's options and settings, and
\* whether the resolver threw (then the settings were not assigned)
refreshOptions(o) ==
  LET settings == resolveQuickEditOptions(o.quickEditOptions)
      writes   == resolveQuickEditOptionsWrites(o.quickEditOptions, defaultOptions)
  IN IF resolveQuickEditOptionsThrows(o.quickEditOptions)
     THEN [ gridOptions |-> o,
            defaults |-> defaultOptions,
            quickEditSettings |-> quickEditSettings,
            eligibleEditorKeys |-> eligibleEditorKeys,
            threw |-> TRUE ]
     ELSE [ gridOptions |-> [o EXCEPT !.quickEditOptions = writes.option],
            defaults |-> writes.defaults,
            quickEditSettings |-> settings,
            eligibleEditorKeys |-> SetOf(settings.eligibleEditors),
            threw |-> FALSE ]

\* mutant: the handler stores the options and does not refresh the settings
handleSetOptions_NoRefresh(o) ==
  [ gridOptions |-> o,
    defaults |-> defaultOptions,
    quickEditSettings |-> quickEditSettings,
    eligibleEditorKeys |-> eligibleEditorKeys,
    threw |-> FALSE ]

\* the onSetOptions handler of init, with args.optionsAfter = o
handleSetOptions(o) == refreshOptions(o)

\* SlickEventHandler.unsubscribeAll()
unsubscribeAll(subs) == <<>>

\* mutant: dispose drops the grid reference and keeps the subscriptions
disposeService_KeepSubscriptions(subs) == [ grid |-> FALSE, subscriptions |-> subs ]

\* dispose(): the controller's grid reference and subscriptions
disposeService(subs) == [ grid |-> FALSE, subscriptions |-> unsubscribeAll(subs) ]

\* mutant: the continuation moves the caret and never seeds
runTask_NoSeed(task, editor, settings) ==
  IF editor = Undef \/ ~isEditorEligible(Val(editor)) THEN [editor |-> editor, ops |-> <<>>]
  ELSE [ editor |-> Def(moveCaretToEnd(Val(editor))),
         ops    |-> <<"focus", "setSelectionRange">> ]

\* mutant: the continuation seeds whatever seedWithTypedChar says
runTask_SeedsAlways(task, editor, settings) ==
  IF editor = Undef \/ ~isEditorEligible(Val(editor)) THEN [editor |-> editor, ops |-> <<>>]
  ELSE
    LET seeds  == /\ task.kind = "key"
                  /\ task.seedChar # Undef
                  /\ CtorHasSetValue(EditorCtor(Val(editor)))
        seeded == IF seeds THEN [Val(editor) EXCEPT !.value = Val(task.seedChar)]
                  ELSE Val(editor)
    IN [ editor |-> Def(moveCaretToEnd(seeded)),
         ops    |-> (IF seeds THEN <<"setValue">> ELSE <<>>)
                    \o <<"focus", "setSelectionRange">> ]

\* the continuation queued by beginQuickEdit or handleDblClick, run on the
\* editor the grid has open at that moment: [editor, ops]
runTask(task, editor, settings) ==
  IF editor = Undef \/ ~isEditorEligible(Val(editor)) THEN [editor |-> editor, ops |-> <<>>]
  ELSE
    LET seeds  == /\ task.kind = "key"
                  /\ task.seedChar # Undef
                  /\ settings.seedWithTypedChar
                  /\ CtorHasSetValue(EditorCtor(Val(editor)))
        seeded == IF seeds THEN [Val(editor) EXCEPT !.value = Val(task.seedChar)]
                  ELSE Val(editor)
    IN [ editor |-> Def(moveCaretToEnd(seeded)),
         ops    |-> (IF seeds THEN <<"setValue">> ELSE <<>>)
                    \o <<"focus", "setSelectionRange">> ]

(***************************************************************************)
(* Event dispatch (SlickEvent.notify over the subscribed handlers)         *)
(***************************************************************************)
HostEvents == <<"onKeyDown", "onDblClick", "onSetOptions", "onBeforeDestroy">>

\* the number of handlers the controller has subscribed to a host event
RECURSIVE HandlerCount(_, _)
HandlerCount(event, subs) ==
  IF subs = <<>> THEN 0
  ELSE (IF Head(subs) = event THEN 1 ELSE 0) + HandlerCount(event, Tail(subs))

RECURSIVE notifyKeyDown(_, _, _, _)
notifyKeyDown(n, w, ev, opens) ==
  IF n = 0 \/ w.stopped THEN w
  ELSE notifyKeyDown(n - 1, handleKeyDown(w, ev, opens), ev, opens)

RECURSIVE notifyDblClick(_, _, _)
notifyDblClick(n, w, ev) ==
  IF n = 0 \/ w.stopped THEN w
  ELSE notifyDblClick(n - 1, handleDblClick(w, ev), ev)

\* the grid's own handling of a double-click, after the subscribers ran:
\* the cell becomes active and, when opens, its editor is constructed
nativeDblClick(w, ev, opens) ==
  IF \/ ev.args = Undef
     \/ Val(ev.args).row = Undef
     \/ Val(ev.args).cell = Undef
     \/ ~canCellBeActive(Val(Val(ev.args).row), Val(Val(ev.args).cell)) THEN w
  ELSE
    LET cell == [row |-> Val(Val(ev.args).row), cell |-> Val(Val(ev.args).cell)]
    IN IF w.activeCell = Def(cell) /\ w.cellEditor # Undef THEN w
       ELSE IF w.cellEditor = Undef /\ w.editorLock THEN w
       ELSE IF opens /\ HasEditor(cell)
            THEN [ w EXCEPT !.activeCell = Def(cell),
                            !.cellEditor = Def(NewEditor(cell)),
                            !.editorLock = TRUE ]
            ELSE [ w EXCEPT !.activeCell = Def(cell),
                            !.cellEditor = Undef,
                            !.editorLock = FALSE ]

(***************************************************************************)
(* Inputs                                                                  *)
(***************************************************************************)
MaxInits == 2   \* init() calls without a dispose() in between
MaxTasks == 1   \* continuations queued and not yet run

kLetterA == <<"a">>
kDigit5  == <<"5">>
kMinus   == <<"-">>

\* a KeyboardEvent
NativeEvent(key, flags) ==
  [ key |-> key,
    altKey |-> "altKey" \in flags, ctrlKey |-> "ctrlKey" \in flags,
    metaKey |-> "metaKey" \in flags, isComposing |-> "isComposing" \in flags,
    defaultPrevented |-> "defaultPrevented" \in flags, repeat |-> "repeat" \in flags ]

PrintableKeys == {kLetterA, kDigit5, kMinus, kSpace, kSpacebar}
KeyChoices    == PrintableKeys \cup {kEnter, kDead} \cup NAVIGATION_KEYS
FlagChoices   == { {"altKey"}, {"ctrlKey"}, {"metaKey"}, {"isComposing"},
                   {"defaultPrevented"}, {"repeat"} }

Args(row, cell) == Def([row |-> row, cell |-> cell])

\* event args on a cell of the grid
CellArgs == { Args(Def(r), Def(c)) : r \in DataRows, c \in 0..(NumCols - 1) }

\* event args that miss a coordinate, or name a cell outside the grid
OddArgs ==
  { Undef, Args(Undef, Def(0)), Args(Def(0), Undef),
    Args(Def(0), Def(NumCols)), Args(Def(Cardinality(DataRows)), Def(0)) }

\* the key-down events of the key-down specification
KeyDownEvents ==
  { [native |-> Def(NativeEvent(k, {})), args |-> a] : k \in KeyChoices, a \in CellArgs }
  \cup
  { [native |-> Def(NativeEvent(k, f)), args |-> Args(Def(0), Def(0))] :
      k \in {kLetterA, kEnter, kTab}, f \in FlagChoices }
  \cup
  { [native |-> Def(NativeEvent(k, {})), args |-> a] : k \in {kLetterA, kEnter}, a \in OddArgs }
  \cup
  { [native |-> Undef, args |-> Args(Def(0), Def(0))] }

\* the key-down events of the life-cycle specification
SampleKeyDownEvents ==
  { [native |-> Def(NativeEvent(k, {})), args |-> Args(Def(0), Def(0))] :
      k \in {kLetterA, kEnter} }
  \cup
  { [native |-> Def(NativeEvent(kDigit5, {})), args |-> Args(Def(0), Def(c))] : c \in {2, 3} }

\* the cells the user moves to in the life-cycle specification
SampleCells == {0, 2}

\* the double-click events of the double-click specification
AllDblClickEvents == { [native |-> Undef, args |-> a] : a \in CellArgs \cup OddArgs }

DblClickEvents ==
  { [native |-> Undef, args |-> a] : a \in {Args(Def(0), Def(c)) : c \in {0, 2}} \cup {Undef} }

\* a partial QuickEditOption
QuickEditOption(startOnPrintableKey, seedWithTypedChar, allowEnterToStart, ignoreWithMetaKey, eligibleEditors, moveCaretToEndOnDblClick) ==
  [ startOnPrintableKey |-> startOnPrintableKey, seedWithTypedChar |-> seedWithTypedChar,
    allowEnterToStart |-> allowEnterToStart, ignoreWithMetaKey |-> ignoreWithMetaKey,
    eligibleEditors |-> eligibleEditors,
    moveCaretToEndOnDblClick |-> moveCaretToEndOnDblClick ]

MyEditorAndInteger ==
  << <<"M","y","E","d","i","t","o","r">>, <<"I","N","T","E","G","E","R">> >>

EligibleEditorsChoices ==
  { <<>>,
    << <<"T","e","x","t">>, <<"t","e","x","t">>, <<"T","E","X","T">> >>,
    << kInteger, kText, kInteger >>,
    MyEditorAndInteger }

GridOption(enableQuickEdit, editable, quickEditOptions) ==
  [ enableQuickEdit |-> enableQuickEdit, editable |-> editable,
    quickEditOptions |-> quickEditOptions ]

\* the grid options of the key-down specification: every combination of the flags
GridOptionChoices ==
  { GridOption(Def(enabled), Def(editable),
               Def(QuickEditOption(Def(a), Def(b), Def(c), Def(d), e, Def(f)))) :
      enabled \in BOOLEAN, editable \in BOOLEAN,
      a \in BOOLEAN, b \in BOOLEAN, c \in BOOLEAN, d \in BOOLEAN, f \in BOOLEAN,
      e \in {Undef, Def(<<>>), Def(<< kInteger, kText, kInteger >>),
             Def(MyEditorAndInteger), Def(<< kNumber >>)} }

\* the grid options of the life-cycle specification
SampleGridOptionChoices ==
  { GridOption(Undef, Undef, Undef),
    GridOption(Def(TRUE), Def(TRUE), Undef),
    GridOption(Def(TRUE), Def(TRUE),
      Def(QuickEditOption(Undef, Def(FALSE), Def(TRUE), Undef, Undef, Def(FALSE)))),
    GridOption(Def(TRUE), Def(TRUE),
      Def(QuickEditOption(Undef, Undef, Undef, Undef, Def(MyEditorAndInteger), Undef))) }

\* the grid options of the resolver specification: every partial QuickEditOption
OptionalBoolean == {Undef, Def(TRUE), Def(FALSE)}

PartialGridOptionChoices ==
  { GridOption(Def(TRUE), Def(TRUE), Undef) }
  \cup
  { GridOption(Def(TRUE), Def(TRUE),
               Def(QuickEditOption(a, b, c, d, e, f))) :
      a \in OptionalBoolean, b \in OptionalBoolean, c \in OptionalBoolean,
      d \in OptionalBoolean, f \in OptionalBoolean,
      e \in {Undef} \cup { Def(l) : l \in EligibleEditorsChoices } }

\* grid options whose quick-edit options are absent or malformed
MalformedGridOptionChoices ==
  { GridOption(Def(TRUE), Def(TRUE),
               Def(QuickEditOption(Undef, Undef, c, Undef, Def(e), Undef))) :
      c \in {Undef, Def(TRUE)},
      e \in { NonArrayValue, << kText, NonStringEntry >>, << NonStringEntry >> } }

\* the grid options of the options specification
AnyGridOptionChoices == SampleGridOptionChoices \cup MalformedGridOptionChoices

(***************************************************************************)
(* Actions                                                                 *)
(***************************************************************************)
\* the host state an operation of the controller started from
HostBefore ==
  Def([ activeCell |-> activeCell, cellEditor |-> cellEditor, editorLock |-> editorLock ])

\* the host's options object and the defaults object before a call that
\* resolves the settings
OptionsBefore ==
  Def([ hostOptions |-> hostOptions, defaultOptions |-> defaultOptions ])

\* the controller's own state an operation started from
SettingsBefore ==
  Def([ grid |-> grid, subscriptions |-> subscriptions,
        gridOptions |-> gridOptions, quickEditSettings |-> quickEditSettings,
        eligibleEditorKeys |-> eligibleEditorKeys ])

\* the record of an operation: the handlers' commands to the grid (calls), the
\* continuations they queued (scheduled), what a continuation did (editorOps),
\* whether the operation ended with an uncaught error (threw), and how many
\* continuations were queued when it started (queued)
Log(op, ev, w, before, settingsBefore, task, ops) ==
  [ op |-> op, ev |-> ev, before |-> before, settingsBefore |-> settingsBefore,
    calls |-> w.calls, stopped |-> w.stopped, prevented |-> w.prevented,
    scheduled |-> Len(w.tasks) - Len(tasks), task |-> task, editorOps |-> ops,
    threw |-> w.threw, queued |-> Len(tasks), previous |-> w.previous ]

\* new SelectFilter(collectionService, translaterService, isMultipleSelect)
SelectFilterNew(multiple) ==
  /\ isMultipleSelect = multiple
  /\ columnDef = Undef
  /\ searchTerms = Undef
  /\ shouldTriggerQuery = TRUE
  /\ filterElm = Undef
  /\ isFilled = FALSE
  /\ supplied = Undef
  /\ renders = 0
  /\ filterLast = [ op |-> "new", arg |-> Undef, callbacks |-> <<>>, threw |-> FALSE,
                    before |-> Undef, prev |-> Undef ]

Init ==
  /\ defaultOptions = DEFAULT_QUICK_EDIT_OPTIONS
  /\ grid = FALSE
  /\ gridOptions = GridOption(Undef, Undef, Undef)
  /\ quickEditSettings = DEFAULT_QUICK_EDIT_OPTIONS
  /\ eligibleEditorKeys = SetOf(DEFAULT_QUICK_EDIT_OPTIONS.eligibleEditors)
  /\ subscriptions = <<>>
  /\ hostOptions = GridOption(Undef, Undef, Undef)
  /\ activeCell = Undef
  /\ cellEditor = Undef
  /\ editorLock = FALSE
  /\ tasks = <<>>
  /\ last = Log("new", Undef, World, Undef, Undef, Undef, <<>>)
  /\ SelectFilterNew(TRUE)

\* init(grid)
init ==
  /\ HandlerCount("onKeyDown", subscriptions) < MaxInits
  /\ grid' = TRUE
  /\ LET r == refreshOptions(hostOptions)
     IN /\ gridOptions' = r.gridOptions
        /\ quickEditSettings' = r.quickEditSettings
        /\ eligibleEditorKeys' = r.eligibleEditorKeys
        /\ hostOptions' = r.gridOptions
        /\ defaultOptions' = r.defaults
        /\ subscriptions' = IF r.threw THEN subscriptions ELSE subscriptions \o HostEvents
        /\ last' = Log("init", Undef, [World EXCEPT !.threw = r.threw, !.previous = refreshOptionsPrevious],
                       OptionsBefore, SettingsBefore, Undef, <<>>)
  /\ UNCHANGED << activeCell, cellEditor, editorLock, tasks, filterVars >>

\* dispose()
dispose ==
  /\ grid' = disposeService(subscriptions).grid
  /\ subscriptions' = disposeService(subscriptions).subscriptions
  /\ last' = Log("dispose", Undef, World, Undef, Undef, Undef, <<>>)
  /\ UNCHANGED << defaultOptions, gridOptions, quickEditSettings, eligibleEditorKeys, hostOptions,
                  activeCell, cellEditor, editorLock, tasks, filterVars >>

\* the grid raises onBeforeDestroy
BeforeDestroy ==
  /\ IF HandlerCount("onBeforeDestroy", subscriptions) > 0
     THEN /\ grid' = disposeService(subscriptions).grid
          /\ subscriptions' = disposeService(subscriptions).subscriptions
     ELSE UNCHANGED << grid, subscriptions >>
  /\ last' = Log("onBeforeDestroy", Undef, World, Undef, Undef, Undef, <<>>)
  /\ UNCHANGED << defaultOptions, gridOptions, quickEditSettings, eligibleEditorKeys, hostOptions,
                  activeCell, cellEditor, editorLock, tasks, filterVars >>

\* grid.setOptions(o): the grid raises onSetOptions with optionsAfter = o
SetOptions(o) ==
  /\ IF HandlerCount("onSetOptions", subscriptions) > 0
     THEN LET r == handleSetOptions(o)
          IN /\ gridOptions' = r.gridOptions
             /\ quickEditSettings' = r.quickEditSettings
             /\ eligibleEditorKeys' = r.eligibleEditorKeys
             /\ hostOptions' = r.gridOptions
             /\ defaultOptions' = r.defaults
             /\ last' = Log("onSetOptions", Undef, [World EXCEPT !.threw = r.threw, !.previous = refreshOptionsPrevious],
                            Def([hostOptions |-> o, defaultOptions |-> defaultOptions]),
                            SettingsBefore, Undef, <<>>)
     ELSE /\ hostOptions' = o
          /\ last' = Log("onSetOptions", Undef, World,
                         Def([hostOptions |-> o, defaultOptions |-> defaultOptions]),
                         SettingsBefore, Undef, <<>>)
          /\ UNCHANGED << defaultOptions, gridOptions, quickEditSettings, eligibleEditorKeys >>
  /\ UNCHANGED << grid, subscriptions, activeCell, cellEditor, editorLock, tasks, filterVars >>

\* the grid raises onKeyDown
KeyDown(ev, opens) ==
  LET w == notifyKeyDown(HandlerCount("onKeyDown", subscriptions), World, ev, opens)
  IN /\ Len(w.tasks) <= MaxTasks
     /\ activeCell' = w.activeCell
     /\ cellEditor' = w.cellEditor
     /\ editorLock' = w.editorLock
     /\ tasks' = w.tasks
     /\ last' = Log("onKeyDown", Def(ev), w, HostBefore, SettingsBefore, Undef, <<>>)
     /\ UNCHANGED << defaultOptions, grid, gridOptions, quickEditSettings, eligibleEditorKeys,
                     subscriptions, hostOptions, filterVars >>

\* the grid raises onDblClick, then handles the double-click itself
DblClick(ev, opens) ==
  LET w  == notifyDblClick(HandlerCount("onDblClick", subscriptions), World, ev)
      w2 == nativeDblClick(w, ev, opens)
  IN /\ Len(w.tasks) <= MaxTasks
     /\ activeCell' = w2.activeCell
     /\ cellEditor' = w2.cellEditor
     /\ editorLock' = w2.editorLock
     /\ tasks' = w2.tasks
     /\ last' = Log("onDblClick", Def(ev), w, HostBefore, SettingsBefore, Undef, <<>>)
     /\ UNCHANGED << defaultOptions, grid, gridOptions, quickEditSettings, eligibleEditorKeys,
                     subscriptions, hostOptions, filterVars >>

\* the oldest queued continuation runs
RunTask ==
  /\ tasks # <<>>
  /\ LET r == runTask(Head(tasks), cellEditor, quickEditSettings)
     IN /\ cellEditor' = r.editor
        /\ tasks' = Tail(tasks)
        /\ last' = [ Log("task", Undef, World, HostBefore, SettingsBefore, Def(Head(tasks)), r.ops)
                     EXCEPT !.scheduled = 0 ]
  /\ UNCHANGED << defaultOptions, grid, gridOptions, quickEditSettings, eligibleEditorKeys,
                  subscriptions, hostOptions, activeCell, editorLock, filterVars >>

\* the grid constructs the editor of the active cell
HostOpenEditor ==
  /\ activeCell # Undef
  /\ HasEditor(Val(activeCell))
  /\ cellEditor = Undef
  /\ ~editorLock
  /\ cellEditor' = Def(NewEditor(Val(activeCell)))
  /\ editorLock' = TRUE
  /\ last' = Log("host", Undef, World, Undef, Undef, Undef, <<>>)
  /\ UNCHANGED << defaultOptions, grid, gridOptions, quickEditSettings, eligibleEditorKeys,
                  subscriptions, hostOptions, activeCell, tasks, filterVars >>

\* the grid commits or cancels the open editor
HostCloseEditor ==
  /\ cellEditor # Undef
  /\ cellEditor' = Undef
  /\ editorLock' = FALSE
  /\ last' = Log("host", Undef, World, Undef, Undef, Undef, <<>>)
  /\ UNCHANGED << defaultOptions, grid, gridOptions, quickEditSettings, eligibleEditorKeys,
                  subscriptions, hostOptions, activeCell, tasks, filterVars >>

\* the user moves the active cell; an open editor is closed
HostSetActiveCell(cell) ==
  /\ activeCell # Def(cell)
  /\ ~(cellEditor = Undef /\ editorLock)
  /\ activeCell' = Def(cell)
  /\ cellEditor' = Undef
  /\ editorLock' = FALSE
  /\ last' = Log("host", Undef, World, Undef, Undef, Undef, <<>>)
  /\ UNCHANGED << defaultOptions, grid, gridOptions, quickEditSettings, eligibleEditorKeys,
                  subscriptions, hostOptions, tasks, filterVars >>

\* another holder of the shared editor lock activates or releases it
HostLock ==
  /\ cellEditor = Undef
  /\ editorLock' = ~editorLock
  /\ last' = Log("host", Undef, World, Undef, Undef, Undef, <<>>)
  /\ UNCHANGED << defaultOptions, grid, gridOptions, quickEditSettings, eligibleEditorKeys,
                  subscriptions, hostOptions, activeCell, cellEditor, tasks, filterVars >>

(***************************************************************************)
(* The life-cycle specification: any sequence of controller calls, host    *)
(* events, host state changes and continuations                            *)
(***************************************************************************)
Next ==
  \/ init
  \/ dispose
  \/ BeforeDestroy
  \/ \E o \in SampleGridOptionChoices : SetOptions(o)
  \/ \E ev \in SampleKeyDownEvents, opens \in BOOLEAN : KeyDown(ev, opens)
  \/ \E ev \in DblClickEvents, opens \in BOOLEAN : DblClick(ev, opens)
  \/ RunTask
  \/ HostOpenEditor
  \/ HostCloseEditor
  \/ \E r \in DataRows, c \in SampleCells : HostSetActiveCell([row |-> r, cell |-> c])
  \/ HostLock

Spec == Init /\ [][Next]_vars

(***************************************************************************)
(* The key-down specification: one key-down and its continuation, from     *)
(* every combination of settings, on an initialised controller             *)
(***************************************************************************)
InitKeyDown ==
  /\ defaultOptions = DEFAULT_QUICK_EDIT_OPTIONS
  /\ grid = TRUE
  /\ hostOptions \in GridOptionChoices
  /\ gridOptions = refreshOptions(hostOptions).gridOptions
  /\ quickEditSettings = refreshOptions(hostOptions).quickEditSettings
  /\ eligibleEditorKeys = refreshOptions(hostOptions).eligibleEditorKeys
  /\ subscriptions = HostEvents
  /\ activeCell \in {Undef} \cup { Def([row |-> 0, cell |-> c]) : c \in {0, 1} }
  /\ editorLock \in BOOLEAN
  /\ cellEditor \in {Undef} \cup
                    (IF editorLock /\ activeCell # Undef
                     THEN {Def(NewEditor(Val(activeCell)))} ELSE {})
  /\ tasks = <<>>
  /\ last = Log("new", Undef, World, Undef, Undef, Undef, <<>>)
  /\ SelectFilterNew(TRUE)

NextKeyDown ==
  \/ /\ last.op = "new"
     /\ \E ev \in KeyDownEvents, opens \in BOOLEAN : KeyDown(ev, opens)
  \/ RunTask

SpecKeyDown == InitKeyDown /\ [][NextKeyDown]_vars

(***************************************************************************)
(* The double-click specification: one double-click and its continuation,  *)
(* from every combination of settings, on an initialised controller        *)
(***************************************************************************)
NextDblClick ==
  \/ /\ last.op = "new"
     /\ \E ev \in AllDblClickEvents, opens \in BOOLEAN : DblClick(ev, opens)
  \/ RunTask

SpecDblClick == InitKeyDown /\ [][NextDblClick]_vars

(***************************************************************************)
(* The resolver specification: init() on a grid with any partial           *)
(* QuickEditOption in its options                                          *)
(***************************************************************************)
InitResolve ==
  /\ defaultOptions = DEFAULT_QUICK_EDIT_OPTIONS
  /\ grid = FALSE
  /\ gridOptions = GridOption(Undef, Undef, Undef)
  /\ quickEditSettings = DEFAULT_QUICK_EDIT_OPTIONS
  /\ eligibleEditorKeys = SetOf(DEFAULT_QUICK_EDIT_OPTIONS.eligibleEditors)
  /\ subscriptions = <<>>
  /\ hostOptions \in PartialGridOptionChoices
  /\ activeCell = Undef
  /\ cellEditor = Undef
  /\ editorLock = FALSE
  /\ tasks = <<>>
  /\ last = Log("new", Undef, World, Undef, Undef, Undef, <<>>)
  /\ SelectFilterNew(TRUE)

NextResolve == init

SpecResolve == InitResolve /\ [][NextResolve]_vars

(***************************************************************************)
(* The options specification: init(), dispose() and option changes on a    *)
(* grid whose quick-edit options may be absent or malformed                *)
(***************************************************************************)
InitOptions ==
  /\ defaultOptions = DEFAULT_QUICK_EDIT_OPTIONS
  /\ grid = FALSE
  /\ gridOptions = GridOption(Undef, Undef, Undef)
  /\ quickEditSettings = DEFAULT_QUICK_EDIT_OPTIONS
  /\ eligibleEditorKeys = SetOf(DEFAULT_QUICK_EDIT_OPTIONS.eligibleEditors)
  /\ subscriptions = <<>>
  /\ hostOptions \in AnyGridOptionChoices
  /\ activeCell = Undef
  /\ cellEditor = Undef
  /\ editorLock = FALSE
  /\ tasks = <<>>
  /\ last = Log("new", Undef, World, Undef, Undef, Undef, <<>>)
  /\ SelectFilterNew(TRUE)

NextOptions ==
  \/ init
  \/ dispose
  \/ \E o \in AnyGridOptionChoices : SetOptions(o)

SpecOptions == InitOptions /\ [][NextOptions]_vars

(***************************************************************************)
(* SelectFilter (filters/selectFilter.ts)                                  *)
(*                                                                         *)
(* A collection entry is a record of its properties; the multiple-select   *)
(* element is [selects, filled, removed]: the selected values, whether it  *)
(* carries the "filled" class, and whether destroy() removed it.           *)
(***************************************************************************)
EmptyString == <<>>

\* option[name]: a property of a collection entry, or Undef
Prop(entry, name) == IF name \in DOMAIN entry THEN Def(entry[name]) ELSE Undef

\* get columnFilter(): columnDef.filter
columnFilter(colDef) == Val(colDef).filter

\* get collectionOptions(): columnDef.filter.collectionOptions || {}
collectionOptions(colDef) ==
  IF columnFilter(colDef).collectionOptions = Undef THEN [addBlankEntry |-> Undef]
  ELSE Val(columnFilter(colDef).collectionOptions)

\* init, lines 116 to 120: the property names, from the custom structure if any
labelName(colDef) ==
  IF columnFilter(colDef).customStructure = Undef THEN "label"
  ELSE Val(columnFilter(colDef).customStructure).label

valueName(colDef) ==
  IF columnFilter(colDef).customStructure = Undef THEN "value"
  ELSE Val(columnFilter(colDef).customStructure).value

labelPrefixName == "labelPrefix"
labelSuffixName == "labelSuffix"

\* get defaultOperator() and get operator()
defaultOperator(multiple) == IF multiple THEN "IN" ELSE "EQ"

operator(colDef, multiple) ==
  IF columnFilter(colDef).operator # Undef THEN Val(columnFilter(colDef).operator)
  ELSE defaultOperator(multiple)

\* createBlankEntry()
createBlankEntry(colDef) ==
  [ name \in {labelName(colDef), valueName(colDef), labelPrefixName, labelSuffixName}
      |-> EmptyString ]

\* renderDomElement, lines 246 to 248: collection.unshift(createBlankEntry())
\* unless the first entry's label is the empty string
addBlankEntry(colDef, collection) ==
  IF /\ Truthy(collectionOptions(colDef).addBlankEntry)
     /\ Len(collection) > 0
     /\ Prop(collection[1], labelName(colDef)) # Def(EmptyString)
  THEN <<createBlankEntry(colDef)>> \o collection
  ELSE collection

\* buildTemplateHtmlString, line 295: an entry with neither label nor labelKey
InvalidOption(colDef, option) ==
  Prop(option, labelName(colDef)) = Undef /\ Prop(option, "labelKey") = Undef

\* buildTemplateHtmlString, line 299: the option is rendered as selected
Selected(colDef, option, terms) ==
  \E t \in 1..Len(terms) : Def(terms[t]) = Prop(option, valueName(colDef))

\* buildTemplateHtmlString over the options from index i on: [threw, isFilled,
\* selects], the values of the options rendered as selected
RECURSIVE buildTemplateHtmlString(_, _, _, _, _, _)
buildTemplateHtmlString(colDef, optionCollection, terms, multiple, filled, i) ==
  IF i > Len(optionCollection) THEN [threw |-> FALSE, isFilled |-> filled, selects |-> <<>>]
  ELSE
    LET option   == optionCollection[i]
        selected == Selected(colDef, option, terms)
        fills    == selected /\ (multiple \/ Prop(option, valueName(colDef)) # Def(EmptyString))
        rest     == buildTemplateHtmlString(colDef, optionCollection, terms, multiple,
                                            filled \/ fills, i + 1)
    IN IF InvalidOption(colDef, option)
       THEN [threw |-> TRUE, isFilled |-> filled, selects |-> <<>>]
       ELSE [ rest EXCEPT !.selects =
                (IF selected THEN <<Val(Prop(option, valueName(colDef)))>> ELSE <<>>) \o @ ]

\* renderDomElement(columnFilter.collection): the collection after it, whether
\* it threw, isFilled and $filterElm
renderDomElement(colDef, terms, multiple, filled, elm) ==
  LET collection == addBlankEntry(colDef, Val(columnFilter(colDef).collection))
      template   == buildTemplateHtmlString(colDef, collection, terms, multiple, filled, 1)
  IN [ collection |-> collection,
       threw      |-> template.threw,
       isFilled   |-> template.isFilled,
       filterElm  |-> IF template.threw THEN elm
                      ELSE Def([ selects |-> template.selects, filled |-> template.isFilled,
                                 removed |-> FALSE ]) ]

\* mutant: the should-trigger flag is left as clear() set it
clear_NoReset(elm, terms, flag, shouldTrigger) ==
  IF elm = Undef
  THEN [ filterElm |-> elm, searchTerms |-> terms, shouldTriggerQuery |-> flag,
         callbacks |-> <<>> ]
  ELSE [ filterElm |-> Def([Val(elm) EXCEPT !.selects = <<>>, !.filled = FALSE]),
         searchTerms |-> <<>>,
         shouldTriggerQuery |-> Coalesce(shouldTrigger, TRUE),
         callbacks |-> << [ clearFilterTriggered |-> Def(TRUE),
                            shouldTriggerQuery |-> Coalesce(shouldTrigger, TRUE),
                            searchTerms |-> Undef, operator |-> Undef ] >> ]

\* clear(shouldTriggerQuery = true): the element, the search terms and the flag
\* after it, and the callback calls it made
clear(elm, terms, flag, shouldTrigger) ==
  IF elm = Undef
  THEN [ filterElm |-> elm, searchTerms |-> terms, shouldTriggerQuery |-> flag,
         callbacks |-> <<>> ]
  ELSE [ filterElm |-> Def([Val(elm) EXCEPT !.selects = <<>>, !.filled = FALSE]),
         searchTerms |-> <<>>,
         shouldTriggerQuery |-> TRUE,
         callbacks |-> << [ clearFilterTriggered |-> Def(TRUE),
                            shouldTriggerQuery |-> Coalesce(shouldTrigger, TRUE),
                            searchTerms |-> Undef, operator |-> Undef ] >> ]

\* getValues()
getValues(elm) == IF elm = Undef THEN <<>> ELSE Val(elm).selects

\* onTriggerEvent(undefined), the onClose handler of the element
onTriggerEvent(colDef, elm, multiple, flag) ==
  LET selectedItems == getValues(elm)
      filled == \/ Len(selectedItems) > 1
                \/ (Len(selectedItems) = 1 /\ selectedItems[1] # EmptyString)
  IN [ filterElm |-> Def([Val(elm) EXCEPT !.filled = filled]),
       isFilled |-> filled,
       searchTerms |-> selectedItems,
       shouldTriggerQuery |-> TRUE,
       callbacks |-> << [ clearFilterTriggered |-> Undef,
                          shouldTriggerQuery |-> flag,
                          searchTerms |-> Def(selectedItems),
                          operator |-> Def(operator(colDef, multiple)) ] >> ]

(***************************************************************************)
(* SelectFilter: inputs                                                    *)
(***************************************************************************)
MaxRenders == 3   \* renderings of one filter

sA == <<"a">>
sB == <<"b">>

\* collections a column definition may carry
CollectionChoices ==
  { <<>>,
    << [value |-> sA, label |-> sA], [value |-> sB, label |-> sB] >>,
    << [value |-> sA, labelKey |-> sA], [value |-> sB, label |-> sB] >>,
    << [value |-> EmptyString, label |-> EmptyString], [value |-> sA, label |-> sA] >>,
    << [value |-> sA, label |-> EmptyString], [value |-> sB, label |-> sB] >>,
    << [value |-> sA, label |-> sA], [value |-> sB] >> }

\* collections whose entries follow a custom structure
CustomCollectionChoices ==
  { << [code |-> sA, name |-> sA], [code |-> sB, name |-> sB] >> }

ColumnFilter(collection, addBlank, customStructure) ==
  [ collection |-> collection,
    collectionOptions |-> IF addBlank = Undef THEN Undef
                          ELSE Def([addBlankEntry |-> addBlank]),
    customStructure |-> customStructure,
    operator |-> Undef ]

\* the arguments of init: a column definition and optional search terms
FilterArguments ==
  { [ columnDef |-> Def([filter |-> ColumnFilter(c, b, Undef)]), searchTerms |-> t ] :
      c \in {Undef} \cup { Def(x) : x \in CollectionChoices },
      b \in {Undef, Def(TRUE), Def(FALSE)},
      t \in {Undef, Def(<<sA>>)} }
  \cup
  { [ columnDef |-> Def([filter |-> ColumnFilter(Def(c), Def(TRUE),
                                                 Def([label |-> "name", value |-> "code"]))]),
      searchTerms |-> Undef ] :
      c \in CustomCollectionChoices }

\* what the user may tick in the drop-down
SelectionChoices == { <<>>, <<sA>>, <<EmptyString>>, <<sA, sB>> }

(***************************************************************************)
(* SelectFilter: actions                                                   *)
(***************************************************************************)
\* the filter state an operation started from
FilterBefore ==
  Def([ columnDef |-> columnDef, searchTerms |-> searchTerms, filterElm |-> filterElm,
        shouldTriggerQuery |-> shouldTriggerQuery ])

FilterLog(op, arg, callbacks, threw) ==
  [ op |-> op, arg |-> arg, callbacks |-> callbacks, threw |-> threw,
    before |-> FilterBefore, prev |-> Def([op |-> filterLast.op, arg |-> filterLast.arg]) ]

\* init(args), called once on a filter by the grid that constructed it
SelectFilter_init(args) ==
  /\ columnDef = Undef
  /\ renders < MaxRenders
  /\ searchTerms' = Coalesce(args.searchTerms, <<>>)
  /\ supplied' = columnFilter(args.columnDef).collection
  /\ IF columnFilter(args.columnDef).collection = Undef
     THEN /\ columnDef' = args.columnDef
          /\ filterLast' = FilterLog("init", Def(args), <<>>, TRUE)
          /\ UNCHANGED << filterElm, isFilled, renders >>
     ELSE LET r == renderDomElement(args.columnDef, Coalesce(args.searchTerms, <<>>),
                                    isMultipleSelect, isFilled, filterElm)
          IN /\ columnDef' = Def([ filter |-> [ columnFilter(args.columnDef)
                                                EXCEPT !.collection = Def(r.collection) ] ])
             /\ filterElm' = r.filterElm
             /\ isFilled' = r.isFilled
             /\ renders' = renders + 1
             /\ filterLast' = FilterLog("init", Def(args), <<>>, r.threw)
  /\ UNCHANGED << isMultipleSelect, shouldTriggerQuery, quickEditVars >>

\* renderDomElement(columnFilter.collection), on the collection already rendered
SelectFilter_renderDomElement ==
  /\ columnDef # Undef
  /\ columnFilter(columnDef).collection # Undef
  /\ renders < MaxRenders
  /\ LET r == renderDomElement(columnDef, searchTerms, isMultipleSelect, isFilled, filterElm)
     IN /\ columnDef' = Def([ filter |-> [ columnFilter(columnDef)
                                           EXCEPT !.collection = Def(r.collection) ] ])
        /\ filterElm' = r.filterElm
        /\ isFilled' = r.isFilled
        /\ filterLast' = FilterLog("render", Undef, <<>>, r.threw)
  /\ renders' = renders + 1
  /\ UNCHANGED << isMultipleSelect, searchTerms, shouldTriggerQuery, supplied, quickEditVars >>

\* clear(shouldTriggerQuery)
SelectFilter_clear(shouldTrigger) ==
  /\ LET r == clear(filterElm, searchTerms, shouldTriggerQuery, shouldTrigger)
     IN /\ filterElm' = r.filterElm
        /\ searchTerms' = r.searchTerms
        /\ shouldTriggerQuery' = r.shouldTriggerQuery
        /\ filterLast' = FilterLog("clear", shouldTrigger, r.callbacks, FALSE)
  /\ UNCHANGED << isMultipleSelect, columnDef, isFilled, supplied, renders, quickEditVars >>

\* the drop-down closes: the element's onClose calls onTriggerEvent
SelectFilter_onClose ==
  /\ filterElm # Undef
  /\ ~Val(filterElm).removed
  /\ LET r == onTriggerEvent(columnDef, filterElm, isMultipleSelect, shouldTriggerQuery)
     IN /\ filterElm' = r.filterElm
        /\ isFilled' = r.isFilled
        /\ searchTerms' = r.searchTerms
        /\ shouldTriggerQuery' = r.shouldTriggerQuery
        /\ filterLast' = FilterLog("close", Undef, r.callbacks, FALSE)
  /\ UNCHANGED << isMultipleSelect, columnDef, supplied, renders, quickEditVars >>

\* the user ticks options in the drop-down
UserSelects(values) ==
  /\ filterElm # Undef
  /\ ~Val(filterElm).removed
  /\ Val(filterElm).selects # values
  /\ filterElm' = Def([Val(filterElm) EXCEPT !.selects = values])
  /\ filterLast' = FilterLog("select", Def(values), <<>>, FALSE)
  /\ UNCHANGED << isMultipleSelect, columnDef, searchTerms, shouldTriggerQuery, isFilled,
                  supplied, renders, quickEditVars >>

\* destroy()
SelectFilter_destroy ==
  /\ filterElm # Undef
  /\ ~Val(filterElm).removed
  /\ filterElm' = Def([Val(filterElm) EXCEPT !.removed = TRUE])
  /\ filterLast' = FilterLog("destroy", Undef, <<>>, FALSE)
  /\ UNCHANGED << isMultipleSelect, columnDef, searchTerms, shouldTriggerQuery, isFilled,
                  supplied, renders, quickEditVars >>

(***************************************************************************)
(* The select-filter specification: one filter, initialised, rendered,     *)
(* used, cleared and destroyed in any order                                *)
(***************************************************************************)
InitSelectFilter ==
  /\ defaultOptions = DEFAULT_QUICK_EDIT_OPTIONS
  /\ grid = FALSE
  /\ gridOptions = GridOption(Undef, Undef, Undef)
  /\ quickEditSettings = DEFAULT_QUICK_EDIT_OPTIONS
  /\ eligibleEditorKeys = SetOf(DEFAULT_QUICK_EDIT_OPTIONS.eligibleEditors)
  /\ subscriptions = <<>>
  /\ hostOptions = GridOption(Undef, Undef, Undef)
  /\ activeCell = Undef
  /\ cellEditor = Undef
  /\ editorLock = FALSE
  /\ tasks = <<>>
  /\ last = Log("new", Undef, World, Undef, Undef, Undef, <<>>)
  /\ \E multiple \in BOOLEAN : SelectFilterNew(multiple)

NextSelectFilter ==
  \/ \E args \in FilterArguments : SelectFilter_init(args)
  \/ SelectFilter_renderDomElement
  \/ \E shouldTrigger \in {Undef, Def(TRUE), Def(FALSE)} : SelectFilter_clear(shouldTrigger)
  \/ SelectFilter_onClose
  \/ \E values \in SelectionChoices : UserSelects(values)
  \/ SelectFilter_destroy

SpecSelectFilter == InitSelectFilter /\ [][NextSelectFilter]_vars

(***************************************************************************)
(* Properties                                                              *)
(***************************************************************************)
\* the key-down or double-click event of the last operation
LastEvent  == Val(last.ev)
LastNative == Val(LastEvent.native)
LastArgs   == [ row  |-> Val(Val(LastEvent.args).row),
                cell |-> Val(Val(LastEvent.args).cell) ]
LastBefore == Val(last.before)
LastTask   == Val(last.task)

IsKeyDown  == last.op = "onKeyDown"
IsDblClick == last.op = "onDblClick"
IsTask     == last.op = "task"

\* the last operation called grid.editActiveCell
CalledEdit == \E i \in 1..Len(last.calls) : last.calls[i].cmd = "editActiveCell"

\* the last operation called grid.editActiveCell while cell was the active cell
CalledEditFor(cell) ==
  \E i \in 1..Len(last.calls) :
    last.calls[i].cmd = "editActiveCell" /\ last.calls[i].cell = Def(cell)

\* the last operation issued no command and queued no continuation
NoActivity ==
  last.calls = <<>> /\ last.scheduled = 0 /\ ~last.stopped /\ ~last.prevented

\* a key press that is no repeat, no composition and not yet default-prevented,
\* with no modifier held
PlainKeyPress(ev) ==
  /\ ev.native # Undef
  /\ ~Val(ev.native).altKey /\ ~Val(ev.native).ctrlKey /\ ~Val(ev.native).metaKey
  /\ ~Val(ev.native).repeat /\ ~Val(ev.native).isComposing
  /\ ~Val(ev.native).defaultPrevented

\* the event names a cell of the grid that can be activated
OnActivatableCell(ev) ==
  /\ ev.args # Undef
  /\ Val(ev.args).row # Undef
  /\ Val(ev.args).cell # Undef
  /\ Val(Val(ev.args).row) \in DataRows
  /\ Val(Val(ev.args).cell) \in 0..(NumCols - 1)

\* the controller is initialised on a grid with quick edit enabled and editable,
\* and the grid had no editor open and its lock inactive when the event came
ReadyForQuickEdit ==
  /\ grid
  /\ HandlerCount("onKeyDown", subscriptions) > 0
  /\ gridOptions.enableQuickEdit = Def(TRUE)
  /\ gridOptions.editable = Def(TRUE)
  /\ LastBefore.cellEditor = Undef
  /\ ~LastBefore.editorLock

\* the column of a cell index has the text editor, and "text" is an eligible key
EligibleTextColumn(c) ==
  /\ Val(getColumn(c)).editor # Undef
  /\ Val(Val(getColumn(c)).editor).model = InputEditor
  /\ kText \in eligibleEditorKeys

\* C1: with quick edit enabled, the grid editable, no editor open, the lock
\* inactive, startOnPrintableKey = true and no modifier, a plain key press of a
\* printable character on an activatable cell of an eligible text column makes the
\* controller call editActiveCell for that cell; and when the continuation of a
\* key-down has run with seedWithTypedChar = true and a text editor open, the
\* editor's value is the typed character.
C1_PrintableKeyStartsAndSeeds ==
  /\ ( /\ IsKeyDown
       /\ ReadyForQuickEdit
       /\ quickEditSettings.startOnPrintableKey
       /\ PlainKeyPress(LastEvent)
       /\ LastNative.key \in PrintableKeys
       /\ OnActivatableCell(LastEvent)
       /\ EligibleTextColumn(LastArgs.cell) )
     => /\ CalledEditFor(LastArgs)
        /\ last.scheduled = 1
  /\ ( /\ IsTask
       /\ LastTask.kind = "key"
       /\ LastTask.seedChar # Undef
       /\ quickEditSettings.seedWithTypedChar
       /\ cellEditor # Undef
       /\ EditorCtor(Val(cellEditor)) = InputEditor )
     => /\ Val(cellEditor).value = Val(LastTask.seedChar)
        /\ Len(Val(LastTask.seedChar)) = 1

C1_Witness ==
  /\ IsTask
  /\ LastTask.kind = "key"
  /\ LastTask.seedChar = Def(kLetterA)
  /\ LastTask.cell = 0
  /\ quickEditSettings.seedWithTypedChar
  /\ cellEditor # Undef
  /\ Val(cellEditor).cell = 0
  /\ Val(cellEditor).value = kLetterA
  /\ LastBefore.cellEditor # Undef
  /\ Val(LastBefore.cellEditor).value = CellValue(0)

\* C1 as stated, for any non-repeat key-down with no Alt, Ctrl or Meta held: the
\* key-down of a printable character on an activatable cell of an eligible text
\* column makes the controller call editActiveCell for that cell.
C1_AnyNonRepeatKeyDown ==
  ( /\ IsKeyDown
    /\ ReadyForQuickEdit
    /\ quickEditSettings.startOnPrintableKey
    /\ LastEvent.native # Undef
    /\ ~LastNative.altKey /\ ~LastNative.ctrlKey /\ ~LastNative.metaKey
    /\ ~LastNative.repeat
    /\ LastNative.key \in PrintableKeys
    /\ OnActivatableCell(LastEvent)
    /\ EligibleTextColumn(LastArgs.cell) )
  => CalledEditFor(LastArgs)

\* C2: the controller never calls setActiveCell or editActiveCell in an
\* operation that started with a cell editor open or the editor lock active.
C2_ReentrantGuard ==
  last.calls # <<>> =>
    /\ last.before # Undef
    /\ LastBefore.cellEditor = Undef
    /\ ~LastBefore.editorLock

C2_Witness ==
  /\ IsKeyDown
  /\ grid
  /\ gridOptions.enableQuickEdit = Def(TRUE)
  /\ gridOptions.editable = Def(TRUE)
  /\ quickEditSettings.startOnPrintableKey
  /\ PlainKeyPress(LastEvent)
  /\ LastNative.key = kLetterA
  /\ OnActivatableCell(LastEvent)
  /\ EligibleTextColumn(LastArgs.cell)
  /\ LastBefore.cellEditor = Undef
  /\ LastBefore.editorLock
  /\ last.calls = <<>>

\* C3: a key-down of Enter never begins edit mode when allowEnterToStart = false;
\* it calls editActiveCell when allowEnterToStart = true on an eligible column and
\* the other guards pass; and the continuation of an Enter start seeds no character.
C3_EnterStartsOnlyWhenAllowed ==
  /\ ( /\ IsKeyDown
       /\ LastEvent.native # Undef
       /\ LastNative.key = kEnter
       /\ ~quickEditSettings.allowEnterToStart )
     => NoActivity
  /\ ( /\ IsKeyDown
       /\ ReadyForQuickEdit
       /\ PlainKeyPress(LastEvent)
       /\ LastNative.key = kEnter
       /\ quickEditSettings.allowEnterToStart
       /\ OnActivatableCell(LastEvent)
       /\ isColumnEligible(Val(getColumn(LastArgs.cell)), eligibleEditorKeys) )
     => /\ CalledEditFor(LastArgs)
        /\ tasks = << [ kind |-> "key", seedChar |-> Undef,
                        row |-> LastArgs.row, cell |-> LastArgs.cell ] >>
  /\ ( /\ IsTask
       /\ LastTask.kind = "key"
       /\ LastTask.seedChar = Undef )
     => /\ \A i \in 1..Len(last.editorOps) : last.editorOps[i] # "setValue"
        /\ cellEditor # Undef => Val(cellEditor).value = Val(LastBefore.cellEditor).value

C3_Witness ==
  /\ IsTask
  /\ LastTask.kind = "key"
  /\ LastTask.seedChar = Undef
  /\ quickEditSettings.allowEnterToStart
  /\ quickEditSettings.seedWithTypedChar
  /\ cellEditor # Undef
  /\ Val(cellEditor).focused
  /\ Val(cellEditor).value = CellValue(Val(cellEditor).cell)

\* the column is numeric by its editor key, its declared type or its editor type
NumericKindColumn(column) ==
  isNumberColumn(column,
                 resolveEditorKey(IF column.editor = Undef THEN Undef
                                  ELSE Def(Val(column.editor).model)))

\* C4: on an eligible numeric-kind column (numeric by editor key, declared type
\* or editor type), a key-down whose seed character does not match [0-9.-] never
\* begins edit mode, and one whose seed character matches does.
C4_NumericFirstChar ==
  /\ ( /\ IsKeyDown
       /\ PlainKeyPress(LastEvent)
       /\ OnActivatableCell(LastEvent)
       /\ isColumnEligible(Val(getColumn(LastArgs.cell)), eligibleEditorKeys)
       /\ NumericKindColumn(Val(getColumn(LastArgs.cell)))
       /\ LastNative.key \in {kLetterA, kSpace, kSpacebar} )
     => ~CalledEdit
  /\ ( /\ IsKeyDown
       /\ ReadyForQuickEdit
       /\ PlainKeyPress(LastEvent)
       /\ quickEditSettings.startOnPrintableKey
       /\ OnActivatableCell(LastEvent)
       /\ isColumnEligible(Val(getColumn(LastArgs.cell)), eligibleEditorKeys)
       /\ NumericKindColumn(Val(getColumn(LastArgs.cell)))
       /\ LastNative.key \in {kDigit5, kMinus} )
     => CalledEditFor(LastArgs)

\* the host state the last operation started from, as a handler sees it
WorldBefore ==
  [ activeCell |-> LastBefore.activeCell, cellEditor |-> LastBefore.cellEditor,
    editorLock |-> LastBefore.editorLock, tasks |-> <<>>, calls |-> <<>>,
    stopped |-> FALSE, prevented |-> FALSE, threw |-> FALSE,
    previous |-> quickEditSettings ]

\* the last key-down event with Ctrl and Meta released
WithoutCtrlMeta ==
  [ LastEvent EXCEPT !.native = Def([LastNative EXCEPT !.ctrlKey = FALSE,
                                                       !.metaKey = FALSE]) ]

\* C5: a key-down with Ctrl or Meta held never begins edit mode when
\* ignoreWithMetaKey = true; when it is false, the key-down begins edit mode
\* exactly when the same key-down without Ctrl and Meta would.
C5_CtrlMetaSuppressed ==
  ( /\ IsKeyDown
    /\ LastEvent.native # Undef
    /\ LastNative.ctrlKey \/ LastNative.metaKey )
  => IF quickEditSettings.ignoreWithMetaKey
     THEN NoActivity
     ELSE CalledEdit <=> handleKeyDown(WorldBefore, WithoutCtrlMeta, TRUE).calls # <<>>

C5_Witness ==
  /\ IsKeyDown
  /\ LastEvent.native # Undef
  /\ LastNative.ctrlKey
  /\ LastNative.key = kLetterA
  /\ ~quickEditSettings.ignoreWithMetaKey
  /\ CalledEditFor(LastArgs)
  /\ last.prevented

\* the reserved navigation keys
ReservedNavigationKeys ==
  { kArrowLeft, kArrowRight, kArrowUp, kArrowDown, kHome, kEnd,
    kPageUp, kPageDown, kTab, kEscape, kF2 }

\* C6: whatever the settings and the column, a key-down of a reserved navigation
\* key never makes the controller call editActiveCell.
C6_NavigationKeysNeverStart ==
  ( /\ IsKeyDown
    /\ LastEvent.native # Undef
    /\ LastNative.key \in ReservedNavigationKeys )
  => NoActivity

C6_Witness ==
  /\ IsKeyDown
  /\ ReadyForQuickEdit
  /\ PlainKeyPress(LastEvent)
  /\ LastNative.key = kF2
  /\ quickEditSettings.startOnPrintableKey
  /\ quickEditSettings.allowEnterToStart
  /\ OnActivatableCell(LastEvent)
  /\ EligibleTextColumn(LastArgs.cell)
  /\ NoActivity

\* C7: when the continuation of a double-click has run with a text-input editor
\* open, the input is focused, both selection boundaries equal the length of its
\* text, and the editor's value is what it was before; a double-click on an
\* eligible column with quick edit enabled and moveCaretToEndOnDblClick = true
\* queues that continuation.
C7_DblClickMovesCaretToEnd ==
  /\ ( /\ IsTask
       /\ LastTask.kind = "dblclick"
       /\ cellEditor # Undef
       /\ CtorHasInput(EditorCtor(Val(cellEditor))) )
     => /\ Val(cellEditor).focused
        /\ Val(cellEditor).selectionStart = Len(Val(cellEditor).value)
        /\ Val(cellEditor).selectionEnd = Len(Val(cellEditor).value)
        /\ Val(cellEditor).value = Val(LastBefore.cellEditor).value
  /\ ( /\ IsDblClick
       /\ grid
       /\ HandlerCount("onDblClick", subscriptions) > 0
       /\ gridOptions.enableQuickEdit = Def(TRUE)
       /\ quickEditSettings.moveCaretToEndOnDblClick
       /\ OnActivatableCell(LastEvent)
       /\ isColumnEligible(Val(getColumn(LastArgs.cell)), eligibleEditorKeys) )
     => /\ last.scheduled = HandlerCount("onDblClick", subscriptions)
        /\ tasks[Len(tasks)] = [ kind |-> "dblclick", seedChar |-> Undef,
                                 row |-> LastArgs.row, cell |-> LastArgs.cell ]
        /\ last.calls = <<>>

C7_Witness ==
  /\ IsTask
  /\ LastTask.kind = "dblclick"
  /\ cellEditor # Undef
  /\ Val(cellEditor).cell = LastTask.cell
  /\ ~Val(LastBefore.cellEditor).focused
  /\ Val(LastBefore.cellEditor).selectionEnd = 0
  /\ Val(cellEditor).focused
  /\ Val(cellEditor).selectionStart = 2
  /\ Val(cellEditor).value = CellValue(0)

\* the settings and the eligible keys resolved from the host grid's options
HostSettings == resolveQuickEditOptions(hostOptions.quickEditOptions)
HostEligibleKeys == SetOf(HostSettings.eligibleEditors)

\* C8: while the controller is subscribed, its options are the host's current
\* options and its settings and eligible keys are the ones resolved from them, so
\* a key-down of a printable key begins edit mode, and a double-click queues its
\* continuation, exactly when the column is eligible under the host's current
\* options; an options change leaves the subscriptions as they were.
C8_SetOptionsRefreshes ==
  /\ HandlerCount("onSetOptions", subscriptions) > 0
     => /\ gridOptions = hostOptions
        /\ quickEditSettings = HostSettings
        /\ eligibleEditorKeys = HostEligibleKeys
  /\ ( /\ IsKeyDown
       /\ HandlerCount("onSetOptions", subscriptions) > 0
       /\ HandlerCount("onKeyDown", subscriptions) > 0
       /\ hostOptions.enableQuickEdit = Def(TRUE)
       /\ hostOptions.editable = Def(TRUE)
       /\ LastBefore.cellEditor = Undef
       /\ ~LastBefore.editorLock
       /\ PlainKeyPress(LastEvent)
       /\ LastNative.key \in PrintableKeys
       /\ HostSettings.startOnPrintableKey
       /\ OnActivatableCell(LastEvent) )
     => ( CalledEditFor(LastArgs)
          <=> /\ isColumnEligible(Val(getColumn(LastArgs.cell)), HostEligibleKeys)
              /\ ~NumberSeedRejected(Val(getColumn(LastArgs.cell)),
                                     SeedChar(LastNative.key)) )
  /\ ( /\ IsDblClick
       /\ HandlerCount("onSetOptions", subscriptions) > 0
       /\ HandlerCount("onDblClick", subscriptions) > 0
       /\ hostOptions.enableQuickEdit = Def(TRUE)
       /\ HostSettings.moveCaretToEndOnDblClick
       /\ OnActivatableCell(LastEvent) )
     => ( last.scheduled > 0
          <=> isColumnEligible(Val(getColumn(LastArgs.cell)), HostEligibleKeys) )

C8_Witness ==
  /\ last.op = "onSetOptions"
  /\ Len(subscriptions) = Len(HostEvents)
  /\ Val(last.settingsBefore).eligibleEditorKeys = SetOf(DEFAULT_QUICK_EDIT_OPTIONS.eligibleEditors)
  /\ eligibleEditorKeys = SetOf(MapLower(MyEditorAndInteger))
  /\ isColumnEligible(Val(getColumn(2)), eligibleEditorKeys)
  /\ ~isColumnEligible(Val(getColumn(2)), Val(last.settingsBefore).eligibleEditorKeys)
  /\ ~isColumnEligible(Val(getColumn(0)), eligibleEditorKeys)
  /\ isColumnEligible(Val(getColumn(0)), Val(last.settingsBefore).eligibleEditorKeys)

\* the controller holds no subscription and no grid reference
Disposed == subscriptions = <<>> /\ ~grid

\* C9: after init the controller holds the grid and a subscription to each of the
\* four host events; after dispose() or the host's onBeforeDestroy it holds no
\* subscription and no grid reference; and in that state a key-down or a
\* double-click causes no command to the grid and no deferred work, and an
\* options change leaves the controller's options and settings as they were.
C9_DisposeUnsubscribes ==
  /\ last.op = "init"
     => /\ grid
        /\ \A i \in 1..Len(HostEvents) : HandlerCount(HostEvents[i], subscriptions) >= 1
  /\ last.op \in {"dispose", "onBeforeDestroy"} => Disposed
  /\ (Disposed /\ (IsKeyDown \/ IsDblClick)) => NoActivity
  /\ (Disposed /\ last.op = "onSetOptions")
     => last.settingsBefore = SettingsBefore

C9_Witness ==
  /\ IsKeyDown
  /\ Disposed
  /\ gridOptions.enableQuickEdit = Def(TRUE)
  /\ gridOptions.editable = Def(TRUE)
  /\ quickEditSettings.startOnPrintableKey
  /\ PlainKeyPress(LastEvent)
  /\ LastNative.key = kLetterA
  /\ OnActivatableCell(LastEvent)
  /\ EligibleTextColumn(LastArgs.cell)
  /\ LastBefore.cellEditor = Undef
  /\ ~LastBefore.editorLock
  /\ NoActivity

\* no string occurs twice in the list
NoDuplicates(list) ==
  \A i \in 1..Len(list), j \in 1..Len(list) : list[i] = list[j] => i = j

\* no character of the string is an upper-case letter
NoUpperCase(str) ==
  \A i \in 1..Len(str), j \in 1..Len(UpperCaseChars) : str[i] # UpperCaseChars[j]

\* C10: for every partial settings input, the eligibleEditors of the resolved
\* settings holds no string twice and no string with an upper-case letter.
C10_EligibleEditorsLowerCasedUnique ==
  last.op = "init"
  => /\ NoDuplicates(quickEditSettings.eligibleEditors)
     /\ \A i \in 1..Len(quickEditSettings.eligibleEditors) :
          NoUpperCase(quickEditSettings.eligibleEditors[i])

C10_Witness ==
  /\ last.op = "init"
  /\ hostOptions.quickEditOptions # Undef
  /\ Val(hostOptions.quickEditOptions).eligibleEditors
       = Def(<< <<"T","e","x","t">>, <<"t","e","x","t">>, <<"T","E","X","T">> >>)
  /\ quickEditSettings.eligibleEditors = << kText >>

\* the documented default of each field
DocumentedDefaults ==
  [ startOnPrintableKey      |-> TRUE,
    seedWithTypedChar        |-> TRUE,
    allowEnterToStart        |-> FALSE,
    ignoreWithMetaKey        |-> TRUE,
    eligibleEditors          |-> << <<"t","e","x","t">>, <<"i","n","t","e","g","e","r">>,
                                    <<"f","l","o","a","t">>, <<"n","u","m","b","e","r">> >>,
    moveCaretToEndOnDblClick |-> TRUE ]

BooleanFields ==
  { "startOnPrintableKey", "seedWithTypedChar", "allowEnterToStart",
    "ignoreWithMetaKey", "moveCaretToEndOnDblClick" }

\* the field of the quick-edit options the host supplied, or Undef
Supplied(f) ==
  IF hostOptions.quickEditOptions = Undef THEN Undef
  ELSE Val(hostOptions.quickEditOptions)[f]

\* C11: the resolved settings are a complete record; every field absent from the
\* input has its documented default; every boolean field present keeps the
\* supplied value, an explicit false included; a supplied eligibleEditors list is
\* kept up to lower-casing and removal of repeats.
C11_DefaultsAndSuppliedValues ==
  last.op = "init"
  => /\ DOMAIN quickEditSettings = BooleanFields \cup {"eligibleEditors"}
     /\ \A f \in BooleanFields :
          quickEditSettings[f] = IF Supplied(f) = Undef THEN DocumentedDefaults[f]
                                 ELSE Val(Supplied(f))
     /\ IF Supplied("eligibleEditors") = Undef
        THEN quickEditSettings.eligibleEditors = DocumentedDefaults.eligibleEditors
        ELSE LET given == Val(Supplied("eligibleEditors"))
             IN /\ SetOf(quickEditSettings.eligibleEditors)
                     = { toLowerCase(given[i]) : i \in 1..Len(given) }
                /\ ( /\ NoDuplicates(given)
                     /\ \A i \in 1..Len(given) : NoUpperCase(given[i]) )
                   => quickEditSettings.eligibleEditors = given

C11_Witness ==
  /\ last.op = "init"
  /\ Supplied("startOnPrintableKey") = Def(FALSE)
  /\ Supplied("allowEnterToStart") = Def(TRUE)
  /\ Supplied("seedWithTypedChar") = Undef
  /\ Supplied("eligibleEditors") = Undef
  /\ ~quickEditSettings.startOnPrintableKey
  /\ quickEditSettings.allowEnterToStart
  /\ quickEditSettings.seedWithTypedChar
  /\ Len(quickEditSettings.eligibleEditors) = Len(DocumentedDefaults.eligibleEditors)

\* C11 as stated: every field present in the input, eligibleEditors included,
\* keeps the supplied value.
C11_EverySuppliedValueKept ==
  last.op = "init"
  => \A f \in BooleanFields \cup {"eligibleEditors"} :
       Supplied(f) # Undef => quickEditSettings[f] = Val(Supplied(f))

\* a resolved settings record, passed as the option of a further call
AsOption(settings) ==
  Def([ f \in DOMAIN settings |-> Def(settings[f]) ])

\* C12: resolveQuickEditOptions leaves its input and the defaults record as they
\* were, and resolving the settings it returned yields the same settings, field
\* by field.
C12_PureAndIdempotent ==
  last.op \in {"init", "onSetOptions"} /\ subscriptions # <<>>
  => /\ hostOptions = LastBefore.hostOptions
     /\ defaultOptions = LastBefore.defaultOptions
     /\ defaultOptions = DocumentedDefaults
     /\ \A f \in DOMAIN quickEditSettings :
          resolveQuickEditOptions(AsOption(quickEditSettings))[f] = quickEditSettings[f]
     /\ DOMAIN resolveQuickEditOptions(AsOption(quickEditSettings)) = DOMAIN quickEditSettings

C12_Witness ==
  /\ last.op = "init"
  /\ Supplied("eligibleEditors")
       = Def(<< <<"T","e","x","t">>, <<"t","e","x","t">>, <<"T","E","X","T">> >>)
  /\ Supplied("seedWithTypedChar") = Def(FALSE)
  /\ hostOptions = LastBefore.hostOptions
  /\ quickEditSettings.eligibleEditors = << kText >>
  /\ resolveQuickEditOptions(AsOption(quickEditSettings)) = quickEditSettings

\* the eligibleEditors the host supplied is not a list of strings
MalformedEligibleEditors ==
  /\ Supplied("eligibleEditors") # Undef
  /\ \/ Val(Supplied("eligibleEditors")) = NonArrayValue
     \/ \E i \in 1..Len(Val(Supplied("eligibleEditors"))) :
          Val(Supplied("eligibleEditors"))[i] = NonStringEntry

\* C13: the onSetOptions handler raises no error; with absent quick-edit options
\* the controller ends with the default settings, and with a malformed
\* eligibleEditors it ends with the default eligible editors.
C13_SetOptionsNeverFails ==
  last.op = "onSetOptions" /\ HandlerCount("onSetOptions", subscriptions) > 0
  => /\ ~last.threw
     /\ hostOptions.quickEditOptions = Undef => quickEditSettings = DocumentedDefaults
     /\ MalformedEligibleEditors
        => quickEditSettings.eligibleEditors = DocumentedDefaults.eligibleEditors

\* what the claim says of each column of the grid, read off the column
\* definitions: the lower-cased key of its editor, where it has one that resolves
ExpectedEditorKey ==
  [ c \in 0..(NumCols - 1) |->
      CASE c = 0 -> Def(<<"t","e","x","t">>)
        [] c = 1 -> Def(<<"i","n","t","e","g","e","r">>)
        [] c \in {2, 6} -> Def(<<"m","y","e","d","i","t","o","r">>)
        [] OTHER -> Undef ]

\* the columns with an editor constructor
ColumnsWithEditor == {0, 1, 2, 3, 6, 7}

\* the columns that are numeric by editor key (1), by editor type (3) or by
\* declared column type (5, 6)
NumericColumns == {1, 3, 5, 6}

\* the claim's rule of eligibility, on the column index c
ClaimedEligible(c) ==
  /\ c \in ColumnsWithEditor
  /\ \/ ExpectedEditorKey[c] # Undef /\ Val(ExpectedEditorKey[c]) \in eligibleEditorKeys
     \/ <<"n","u","m","b","e","r">> \in eligibleEditorKeys /\ c \in NumericColumns

\* a double-click that passes every guard of the handler before the column lookup
DblClickReachesColumnLookup ==
  /\ IsDblClick
  /\ grid
  /\ HandlerCount("onDblClick", subscriptions) > 0
  /\ gridOptions.enableQuickEdit = Def(TRUE)
  /\ quickEditSettings.moveCaretToEndOnDblClick
  /\ OnActivatableCell(LastEvent)

\* C14: a column is eligible exactly when it has an editor constructor and either
\* its resolved lower-cased editor key is an eligible key, or "number" is an
\* eligible key and the column is numeric by editor key, declared type or editor
\* type; a column with no editor is ineligible, and one whose editor does not
\* resolve is ineligible unless it is eligible as a numeric column.
C14_ColumnEligibility ==
  /\ \A c \in 0..(NumCols - 1) :
       /\ isColumnEligible(Val(getColumn(c)), eligibleEditorKeys) <=> ClaimedEligible(c)
       /\ c \notin ColumnsWithEditor
          => ~isColumnEligible(Val(getColumn(c)), eligibleEditorKeys)
       /\ (ExpectedEditorKey[c] = Undef /\ c \notin NumericColumns)
          => ~isColumnEligible(Val(getColumn(c)), eligibleEditorKeys)
  /\ DblClickReachesColumnLookup
     => /\ last.scheduled > 0 <=> ClaimedEligible(LastArgs.cell)
        /\ ~last.threw

C14_Witness ==
  /\ DblClickReachesColumnLookup
  /\ LastArgs.cell = 3
  /\ eligibleEditorKeys = { kNumber }
  /\ last.scheduled > 0
  /\ ~isColumnEligible(Val(getColumn(7)), eligibleEditorKeys)
  /\ ~isColumnEligible(Val(getColumn(5)), eligibleEditorKeys)
  /\ isColumnEligible(Val(getColumn(1)), eligibleEditorKeys)

\* C14 as stated: a column with no editor or with an editor that does not resolve
\* to a key is ineligible.
C14_UnresolvedEditorIneligible ==
  \A c \in 0..(NumCols - 1) :
    (c \notin ColumnsWithEditor \/ ExpectedEditorKey[c] = Undef)
    => /\ ~isColumnEligible(Val(getColumn(c)), eligibleEditorKeys)
       /\ (DblClickReachesColumnLookup /\ LastArgs.cell = c) => last.scheduled = 0

\* the grid had no editor open, or one without a text input element, when the
\* last operation started
NoTextInputBefore ==
  \/ LastBefore.cellEditor = Undef
  \/ ~CtorHasInput(EditorCtor(Val(LastBefore.cellEditor)))

\* C15: a continuation that runs while no editor is open, or while the open
\* editor has no text input element, sets no value, moves no focus or caret,
\* issues no command and raises no error; one that runs while an editor with a
\* text input is open acts on that editor, the one open at that moment.
C15_ContinuationRereadsEditor ==
  /\ (IsTask /\ NoTextInputBefore)
     => /\ last.editorOps = <<>>
        /\ cellEditor = LastBefore.cellEditor
        /\ last.calls = <<>>
        /\ last.scheduled = 0
        /\ ~last.threw
  /\ (IsTask /\ ~NoTextInputBefore)
     => /\ cellEditor # Undef
        /\ Val(cellEditor).cell = Val(LastBefore.cellEditor).cell
        /\ Val(cellEditor).focused

C15_Witness ==
  /\ IsTask
  /\ LastTask.kind = "key"
  /\ LastTask.seedChar = Def(kDigit5)
  /\ quickEditSettings.seedWithTypedChar
  /\ LastBefore.cellEditor # Undef
  /\ EditorCtor(Val(LastBefore.cellEditor)) = MyEditor
  /\ cellEditor = LastBefore.cellEditor
  /\ Val(cellEditor).value = CellValue(2)

\* the host's active cell, editor and lock are as they were before the last operation
HostUntouched ==
  /\ activeCell = LastBefore.activeCell
  /\ cellEditor = LastBefore.cellEditor
  /\ editorLock = LastBefore.editorLock

\* C16: after a key-down, the event's propagation is stopped and its default
\* action prevented if and only if the controller called editActiveCell; when it
\* did not, the event is untouched, no command was issued and nothing was queued.
C16_StopAndPreventIffBegan ==
  IsKeyDown
  => /\ last.stopped <=> CalledEdit
     /\ last.prevented <=> CalledEdit
     /\ ~CalledEdit => (NoActivity /\ HostUntouched)

C16_Witness ==
  /\ IsKeyDown
  /\ LastEvent.native # Undef
  /\ LastNative.key = kDigit5
  /\ OnActivatableCell(LastEvent)
  /\ LastArgs.cell = 1
  /\ CalledEditFor(LastArgs)
  /\ last.stopped
  /\ last.prevented

\* the controller's own state is as it was before the last operation
ControllerUntouched == last.settingsBefore = SettingsBefore

\* one of the rejection conditions of the claim holds for the last key-down
KeyDownMustBeRejected ==
  \/ gridOptions.enableQuickEdit \in {Undef, Def(FALSE)}
  \/ gridOptions.editable \in {Undef, Def(FALSE)}
  \/ ~OnActivatableCell(LastEvent)
  \/ /\ LastEvent.native # Undef
     /\ \/ LastNative.isComposing
        \/ LastNative.defaultPrevented
        \/ LastNative.repeat
        \/ LastNative.altKey

\* C17: a key-down is rejected (no setActiveCell, no editActiveCell, nothing
\* queued, event, host and controller state untouched) whenever quick edit is
\* disabled, the grid is not editable, the args lack row or cell, the cell cannot
\* be activated, the native event is composing, default-prevented or a repeat,
\* or Alt is held, whatever the settings.
C17_RejectedKeyDownChangesNothing ==
  (IsKeyDown /\ KeyDownMustBeRejected)
  => /\ NoActivity
     /\ HostUntouched
     /\ ControllerUntouched
     /\ tasks = <<>>

C17_Witness ==
  /\ IsKeyDown
  /\ ReadyForQuickEdit
  /\ quickEditSettings.startOnPrintableKey
  /\ LastEvent.native # Undef
  /\ LastNative.altKey
  /\ LastNative.key = kLetterA
  /\ OnActivatableCell(LastEvent)
  /\ EligibleTextColumn(LastArgs.cell)
  /\ NoActivity
  /\ ControllerUntouched

\* C18: when quick edit begins, the controller's commands to the grid are, in
\* order, setActiveCell(row, cell) if and only if the active cell was absent or
\* was not the event's cell, then one editActiveCell, called while the event's
\* cell is the active cell and passing the originating native event.
C18_ActivateThenEditOnce ==
  (IsKeyDown /\ CalledEdit)
  => LET n == Len(last.calls)
     IN /\ last.calls[n] = [ cmd |-> "editActiveCell", cell |-> Def(LastArgs),
                             e |-> LastEvent.native ]
        /\ \A i \in 1..(n - 1) : last.calls[i].cmd = "setActiveCell"
        /\ IF LastBefore.activeCell = Def(LastArgs)
           THEN n = 1
           ELSE /\ n = 2
                /\ last.calls[1] = [ cmd |-> "setActiveCell", cell |-> Def(LastArgs),
                                     e |-> Undef ]
        /\ activeCell = Def(LastArgs)

C18_Witness ==
  /\ IsKeyDown
  /\ CalledEdit
  /\ LastBefore.activeCell = Def([row |-> 0, cell |-> 1])
  /\ LastArgs.cell = 0
  /\ Len(last.calls) = 2
  /\ last.calls[1].cmd = "setActiveCell"
  /\ last.calls[2].cmd = "editActiveCell"
  /\ activeCell = Def([row |-> 0, cell |-> 0])

\* the host's active cell, editor and lock are what the grid's own handling of
\* the double-click makes of the state before it
HostAsGridAloneLeavesIt ==
  \E opens \in BOOLEAN :
    LET w == nativeDblClick(WorldBefore, LastEvent, opens)
    IN /\ activeCell = w.activeCell
       /\ cellEditor = w.cellEditor
       /\ editorLock = w.editorLock

\* C19: the double-click handler issues no command to the grid and leaves the
\* event alone, so the active cell and the editor after a double-click are what
\* the grid's own handling produces; its continuation issues no command either
\* and leaves the active cell, the lock and the open editor's cell as they were.
C19_DblClickNeverActivates ==
  /\ IsDblClick
     => /\ last.calls = <<>>
        /\ ~last.stopped
        /\ ~last.prevented
        /\ HostAsGridAloneLeavesIt
        /\ ControllerUntouched
  /\ (IsTask /\ LastTask.kind = "dblclick")
     => /\ last.calls = <<>>
        /\ activeCell = LastBefore.activeCell
        /\ editorLock = LastBefore.editorLock
        /\ cellEditor = Undef <=> LastBefore.cellEditor = Undef
        /\ cellEditor # Undef
           => /\ Val(cellEditor).cell = Val(LastBefore.cellEditor).cell
              /\ Val(cellEditor).row = Val(LastBefore.cellEditor).row

C19_Witness ==
  /\ IsDblClick
  /\ last.scheduled = 1
  /\ LastArgs.cell = 0
  /\ LastBefore.activeCell = Def([row |-> 0, cell |-> 1])
  /\ LastBefore.cellEditor = Undef
  /\ last.calls = <<>>
  /\ activeCell = Def([row |-> 0, cell |-> 0])
  /\ cellEditor = Undef

\* the event args lack row or cell, or the grid has no column at the cell index
\* or the column there is not eligible
DblClickOffEligibleColumn ==
  \/ LastEvent.args = Undef
  \/ Val(LastEvent.args).row = Undef
  \/ Val(LastEvent.args).cell = Undef
  \/ getColumn(Val(Val(LastEvent.args).cell)) = Undef
  \/ ~isColumnEligible(Val(getColumn(Val(Val(LastEvent.args).cell))), eligibleEditorKeys)

\* C20: a double-click queues no caret positioning when quick edit is disabled,
\* when the grid is not editable, when moveCaretToEndOnDblClick is false, when
\* row or cell is missing, or when the column is absent or not eligible.
C20_DblClickRejections ==
  ( /\ IsDblClick
    /\ \/ gridOptions.enableQuickEdit \in {Undef, Def(FALSE)}
       \/ gridOptions.editable \in {Undef, Def(FALSE)}
       \/ ~quickEditSettings.moveCaretToEndOnDblClick
       \/ DblClickOffEligibleColumn )
  => last.scheduled = 0 /\ tasks = <<>>

\* how many times the last operation issued a command to the grid
RECURSIVE CountCalls(_, _)
CountCalls(cmd, calls) ==
  IF calls = <<>> THEN 0
  ELSE (IF Head(calls).cmd = cmd THEN 1 ELSE 0) + CountCalls(cmd, Tail(calls))

\* how many times the last continuation performed an operation on the editor
RECURSIVE CountOps(_, _)
CountOps(op, ops) ==
  IF ops = <<>> THEN 0
  ELSE (IF Head(ops) = op THEN 1 ELSE 0) + CountOps(op, Tail(ops))

\* C21: one key-down, to however many handlers of the controller it is delivered,
\* causes at most one editActiveCell and queues at most one continuation, and as
\* many continuations as edit commands; a key-down that began no edit queues
\* none; a continuation calls setValue at most once, queues nothing, and once
\* run has left the queue, which is one shorter.
C21_AtMostOncePerEvent ==
  /\ IsKeyDown
     => /\ CountCalls("editActiveCell", last.calls) <= 1
        /\ last.scheduled = CountCalls("editActiveCell", last.calls)
        /\ Len(tasks) = last.queued + last.scheduled
        /\ ~last.stopped => last.scheduled = 0
  /\ IsTask
     => /\ CountOps("setValue", last.editorOps) <= 1
        /\ last.scheduled = 0
        /\ last.queued >= 1
        /\ Len(tasks) = last.queued - 1

\* a key-down delivered to two handlers of the controller begins one edit
C21_Witness ==
  /\ IsKeyDown
  /\ HandlerCount("onKeyDown", subscriptions) = 2
  /\ CountCalls("editActiveCell", last.calls) = 1
  /\ last.scheduled = 1
  /\ tasks # <<>>

\* the last continuation called the open editor's setValue
SetValueCalled == IsTask /\ CountOps("setValue", last.editorOps) > 0

\* C22: the seed character of a key-down is written only into an editor of the
\* cell the key-down was on, whatever the host did to the active cell and the
\* editor between the key-down and its continuation.
C22_SeedOnlyInTargetCellEditor ==
  SetValueCalled
  => /\ cellEditor # Undef
     /\ Val(cellEditor).row = LastTask.row
     /\ Val(cellEditor).cell = LastTask.cell

\* the caret of the open editor is at the end of its text, which has the focus
CaretAtEnd ==
  /\ Val(cellEditor).focused
  /\ Val(cellEditor).selectionStart = Len(Val(cellEditor).value)
  /\ Val(cellEditor).selectionEnd = Len(Val(cellEditor).value)

C24_SettingsFollowOptions ==
  /\ eligibleEditorKeys = SetOf(quickEditSettings.eligibleEditors)
  /\ ~resolveQuickEditOptionsThrows(gridOptions.quickEditOptions)
  /\ quickEditSettings = resolveQuickEditOptions(gridOptions.quickEditOptions)
  /\ defaultOptions = DEFAULT_QUICK_EDIT_OPTIONS
  /\ last.op \in {"init", "onSetOptions"}
     => last.previous = Val(last.settingsBefore).quickEditSettings

\* C27: whatever sequence of init and dispose calls the controller has seen, it
\* has at most one handler subscribed to each of the four host events.
C27_AtMostOneHandlerPerEvent ==
  \A i \in 1..Len(HostEvents) : HandlerCount(HostEvents[i], subscriptions) <= 1

\* C28: a continuation that runs while the controller is disposed calls no
\* setValue, moves no focus and no caret, and leaves the open editor as it was.
C28_NoEditorChangeAfterDispose ==
  (IsTask /\ Disposed)
  => /\ last.editorOps = <<>>
     /\ cellEditor = LastBefore.cellEditor

\* the callback calls of the last filter operation
FilterCallbacks == filterLast.callbacks

\* the filter had its multiple-select element when the last operation started
WasRendered == Val(filterLast.before).filterElm # Undef

IsBlankEntry(entry) ==
  /\ Prop(entry, labelName(columnDef)) = Def(EmptyString)
  /\ Prop(entry, valueName(columnDef)) = Def(EmptyString)

\* the filter was rendered, once or more, with addBlankEntry set, over a
\* collection that was not empty when init received it
RenderedWithBlankEntry ==
  /\ filterLast.op \in {"init", "render"}
  /\ supplied # Undef
  /\ Len(Val(supplied)) > 0
  /\ Truthy(collectionOptions(columnDef).addBlankEntry)

\* C26: after any number of renders with addBlankEntry set over a non-empty
\* collection, the collection starts with exactly one blank entry: it is the
\* supplied collection with one blank entry in front, or the supplied
\* collection itself when that already started with a blank entry.
C26_ExactlyOneBlankEntry ==
  RenderedWithBlankEntry
  => LET collection == Val(columnFilter(columnDef).collection)
     IN /\ IsBlankEntry(collection[1])
        /\ IF IsBlankEntry(Val(supplied)[1])
           THEN collection = Val(supplied)
           ELSE collection = <<createBlankEntry(columnDef)>> \o Val(supplied)

\* what does hold of the blank entry: when the supplied collection's first
\* entry has no label or a non-empty one, every render leaves the supplied
\* collection with one blank entry in front; when its first label is the empty
\* string, whatever its value, no render adds anything.
BlankEntryAddedOnceUnlessFirstLabelEmpty ==
  RenderedWithBlankEntry
  => IF Prop(Val(supplied)[1], labelName(columnDef)) = Def(EmptyString)
     THEN Val(columnFilter(columnDef).collection) = Val(supplied)
     ELSE Val(columnFilter(columnDef).collection)
            = <<createBlankEntry(columnDef)>> \o Val(supplied)

====
